---------------------------- MODULE Spec2Model ----------------------------
(***************************************************************************)
(* proEXy (noelmathen/EX_Certificate_Application): classification of EX    *)
(* certificates, the Oman label/value matcher, the orchestration of a run  *)
(* (CertificateProcessor.process_certificates) and the GUI's worker        *)
(* threads (main.py).                                                      *)
(*                                                                         *)
(* Text is a sequence of one-character strings, so that upper-casing,      *)
(* substring search, concatenation and key normalisation are computed.     *)
(* Coordinates are integers (PDF points).                                  *)
(***************************************************************************)
EXTENDS Integers, Sequences, FiniteSets, TLC

VARIABLES
    \* --- one call of the classifier (SpecClassify)
    page1,          \* text of page 1 of the PDF handed to the classifier
    opens,          \* "ok" | "zero_pages" | "cannot_open"
    classification, \* what _classify_certificate returned ("pending" before)
    classified_old, \* what old/ex_certificates_combined.classify returned
    \* --- one Oman certificate through both implementations (SpecOman)
    raw_spans,      \* page-1 spans as PyMuPDF reports them: [text, bbox]
    oman_pc,        \* "start" | "processed" | "done" | "off"
    parsed,         \* result of OmanProcessor._parse_certificate
    records,        \* OmanProcessor.records
    parsed_old,     \* result of oman.parse_certificate
    records_old,    \* the records list of oman.main
    extended,       \* result of _extend_spans_with_merged (SpecMerge)
    \* --- one Proserv certificate through ProservProcessor (SpecProserv)
    pdf_doc,        \* the document: [readable, page_count, page1, lattice,
                    \* stream, other_pages]
    proserv_pc,     \* "start" | "processed" | "off"
    equipment_id,   \* what _extract_equipment_id returned
    dataframe,      \* what _extract_table_data returned
    dataframes,     \* ProservProcessor.dataframes
    errors,         \* ProservProcessor.errors
    \* --- runs of CertificateProcessor.process_certificates (Spec)
    run_pc,         \* "idle" | "loop" | "proserv" | "oman" | "finish" |
                    \* "done" | "stopped" | "failed" | "off"
    runs,           \* calls of process_certificates so far
    pdf_files,      \* sorted(glob("*.pdf")) of the current run
    visited,        \* documents of pdf_files the loop has gone through
    stats,          \* self.stats
    proserv_dir,    \* files in "Proserv Certificates"
    oman_dir,       \* files in "Oman Certificates"
    rmtree_patched, \* shutil.rmtree has been replaced by _robust_rmtree
    copy_failed,    \* documents of this run whose shutil.copy2 raised
    stop_requested, \* a progress callback of this run has returned False
    proserv_run,    \* "no" | "nothing" | "written" | "failed"
    oman_run,       \* the same for the Oman extractor
    proserv_read,   \* the files ProservProcessor.process found
    oman_read,      \* the files OmanProcessor.process found
    stats_calls,    \* the calls of stats_callback in this run: what each
                    \* call followed and the counters it was given
    previous,       \* the run before this one, if it completed with every
                    \* copy made: its folder and the two datasets it left
    \* --- the application window and its worker threads (SpecGui)
    is_processing,  \* ProEXyApp.is_processing
    process_btn,    \* state of the Process button: "normal" | "disabled"
    stop_btn,       \* state of the Stop button
    after_timers,   \* pending root.after(1000, reset_ui_after_stop) timers
    after_idle,     \* pending root.after(0, ...) callbacks, in order
    thread          \* the worker threads: [pc, visited, copy_failed]

varsClassify == <<page1, opens, classification, classified_old>>
varsOman == <<raw_spans, oman_pc, parsed, records, parsed_old, records_old,
              extended>>

varsProserv == <<pdf_doc, proserv_pc, equipment_id, dataframe, dataframes, errors>>

varsRun == <<run_pc, runs, pdf_files, visited, stats, proserv_dir, oman_dir,
             rmtree_patched, copy_failed, stop_requested,
             proserv_run, oman_run, proserv_read, oman_read, stats_calls,
             previous>>
varsGui == <<is_processing, process_btn, stop_btn, after_timers, after_idle, thread>>

vars == <<page1, opens, classification, classified_old,
          raw_spans, oman_pc, parsed, records, parsed_old, records_old,
          extended,
          pdf_doc, proserv_pc, equipment_id, dataframe, dataframes, errors,
          run_pc, runs, pdf_files, visited, stats, proserv_dir, oman_dir,
          rmtree_patched, copy_failed, stop_requested,
          proserv_run, oman_run, proserv_read, oman_read, stats_calls,
          previous,
          is_processing, process_btn, stop_btn, after_timers, after_idle,
          thread>>

-----------------------------------------------------------------------------
(* Characters and strings *)

LowerChars ==
    <<"a","b","c","d","e","f","g","h","i","j","k","l","m",
      "n","o","p","q","r","s","t","u","v","w","x","y","z">>

UpperChars ==
    <<"A","B","C","D","E","F","G","H","I","J","K","L","M",
      "N","O","P","Q","R","S","T","U","V","W","X","Y","Z">>

Digits == {"0","1","2","3","4","5","6","7","8","9"}

UpperOf ==
    [c \in {LowerChars[i] : i \in 1..Len(LowerChars)} |->
        UpperChars[CHOOSE i \in 1..Len(LowerChars) : LowerChars[i] = c]]

\* str.upper() on one character
UpperChar(c) == IF c \in DOMAIN UpperOf THEN UpperOf[c] ELSE c

\* str.upper()
Upper(s) == [i \in 1..Len(s) |-> UpperChar(s[i])]

\* Python's  k in s  on strings: k is a contiguous substring of s
Contains(s, k) ==
    \E i \in 1..(Len(s) - Len(k) + 1) : SubSeq(s, i, i + Len(k) - 1) = k

RECURSIVE Concat(_)
\* "".join(parts)
Concat(parts) ==
    IF parts = <<>> THEN <<>> ELSE Head(parts) \o Concat(Tail(parts))

-----------------------------------------------------------------------------
(* Classifier: src/src/certificate_processor.py *)

KEY_PROSERV_A ==
    <<"E","L","E","C","T","R","I","C","A","L"," ","E","Q","U","I","P","M","E","N","T">>
KEY_PROSERV_B ==
    <<"H","A","Z","A","R","D","O","U","S"," ","A","R","E","A","S">>
KEY_OMAN_A ==
    <<"V","I","S","U","A","L"," ","&"," ","C","L","O","S","E"," ","I","N","S","P","E","C","T","I","O","N">>
KEY_OMAN_B ==
    <<"R","E","P","O","R","T"," ","F","O","R">>

None == "None"

\* Mutant of MatchMarkers: the Oman pair is tested before the Proserv pair.
MatchMarkersOmanFirst(text) ==
    IF Contains(text, KEY_OMAN_A) /\ Contains(text, KEY_OMAN_B) THEN "oman"
    ELSE IF Contains(text, KEY_PROSERV_A) /\ Contains(text, KEY_PROSERV_B)
         THEN "proserv"
         ELSE None

\* lines 162-170: the two marker tests on the upper-cased text
MatchMarkers(text) ==
    IF Contains(text, KEY_PROSERV_A) /\ Contains(text, KEY_PROSERV_B) THEN "proserv"
    ELSE IF Contains(text, KEY_OMAN_A) /\ Contains(text, KEY_OMAN_B) THEN "oman"
    ELSE None

\* CertificateProcessor._classify_certificate: fitz.open raising and a
\* document of zero pages both give None.
_classify_certificate(status, text) ==
    IF status = "cannot_open" THEN None
    ELSE IF status = "zero_pages" THEN None
    ELSE MatchMarkers(Upper(text))

\* old/ex_certificates_combined.classify: doc[0] of an empty document raises
\* inside the try, which returns None as well.
classify(status, text) ==
    IF status # "ok" THEN None
    ELSE IF Contains(Upper(text), KEY_PROSERV_A) /\ Contains(Upper(text), KEY_PROSERV_B)
         THEN "proserv"
    ELSE IF Contains(Upper(text), KEY_OMAN_A) /\ Contains(Upper(text), KEY_OMAN_B)
         THEN "oman"
    ELSE None

(* Page-1 texts: concatenations of at most MaxFrags fragments *)

MaxFrags == 3

Fragments ==
    { <<"E","l","e","c","t","r","i","c","a","l"," ","E","q","u","i","p","m","e","n","t"," ","i","n"," ","H","a","z","a","r","d","o","u","s"," ","A","r","e","a","s">>,
      <<"V","I","S","U","A","L"," ","&"," ","C","L","O","S","E"," ","I","N","S","P","E","C","T","I","O","N"," ","R","E","P","O","R","T"," ","F","O","R">>,
      <<"E","l","e","c","t","r","i","c","a","l"," ","E","q","u","i","p","m","e","n","t">>,
      <<"H","a","z","a","r","d","o","u","s"," ","A","r","e","a","s">>,
      <<"V","i","s","u","a","l"," ","&"," ","C","l","o","s","e"," ","I","n","s","p","e","c","t","i","o","n">>,
      <<"r","e","p","o","r","t"," ","f","o","r">>,
      <<"C","e","r","t","i","f","i","c","a","t","e","\n">> }

FragSeqs == UNION { [1..n -> Fragments] : n \in 0..MaxFrags }

OpenStatus == {"ok", "zero_pages", "cannot_open"}

ClassifyOff ==
    /\ page1 = <<>>
    /\ opens = "ok"
    /\ classification = "off"
    /\ classified_old = "off"

OmanOff ==
    /\ raw_spans = <<>>
    /\ oman_pc = "off"
    /\ parsed = <<>>
    /\ records = <<>>
    /\ parsed_old = <<>>
    /\ records_old = <<>>
    /\ extended = <<>>

ProservOff ==
    /\ pdf_doc = <<>>
    /\ proserv_pc = "off"
    /\ equipment_id = <<>>
    /\ dataframe = <<>>
    /\ dataframes = <<>>
    /\ errors = <<>>

RunOff ==
    /\ run_pc = "off"
    /\ runs = 0
    /\ pdf_files = <<>>
    /\ visited = 0
    /\ stats = <<>>
    /\ proserv_dir = {}
    /\ oman_dir = {}
    /\ rmtree_patched = FALSE
    /\ copy_failed = {}
    /\ stop_requested = FALSE
    /\ proserv_run = "no"
    /\ oman_run = "no"
    /\ proserv_read = {}
    /\ oman_read = {}
    /\ stats_calls = <<>>
    /\ previous = <<>>

GuiOff ==
    /\ is_processing = FALSE
    /\ process_btn = "off"
    /\ stop_btn = "off"
    /\ after_timers = 0
    /\ after_idle = <<>>
    /\ thread = <<>>

InitClassify ==
    /\ \E fs \in FragSeqs : page1 = Concat(fs)
    /\ opens \in OpenStatus
    /\ classification = "pending"
    /\ classified_old = "pending"
    /\ OmanOff
    /\ RunOff
    /\ GuiOff
    /\ ProservOff

Classify ==
    /\ classification = "pending"
    /\ classification' = _classify_certificate(opens, page1)
    /\ classified_old' = classify(opens, page1)
    /\ UNCHANGED <<page1, opens>>
    /\ UNCHANGED <<varsOman, varsRun, varsGui, varsProserv>>

NextClassify == Classify

SpecClassify == InitClassify /\ [][NextClassify]_vars

HasProservPair == Contains(Upper(page1), KEY_PROSERV_A) /\ Contains(Upper(page1), KEY_PROSERV_B)
HasOmanPair == Contains(Upper(page1), KEY_OMAN_A) /\ Contains(Upper(page1), KEY_OMAN_B)

\* C1: for a PDF that opens and has a page, the classifier returns 'proserv'
\* iff the upper-cased page-1 text holds both Proserv markers (whatever the
\* Oman markers), otherwise 'oman' iff it holds both Oman markers, otherwise
\* None; the old classify agrees.
C1_Classify ==
    (classification \in {"proserv", "oman", None} /\ opens = "ok") =>
        /\ (classification = "proserv") <=> HasProservPair
        /\ (classification = "oman") <=> (~HasProservPair /\ HasOmanPair)
        /\ (classification = None) <=> (~HasProservPair /\ ~HasOmanPair)
        /\ classified_old = classification

\* C1 witness: both pairs are present and the result is 'proserv'.
C1_Witness ==
    /\ classification = "proserv"
    /\ opens = "ok"
    /\ HasProservPair /\ HasOmanPair

-----------------------------------------------------------------------------
(* Oman certificates: src/src/oman_processor.py and src/oman.py *)

Y_TOLERANCE == 5

FIELDS ==
    << <<"P","R","O","J","E","C","T"," ","D","E","S","C","R","I","P","T","I","O","N">>,
       <<"C","L","I","E","N","T"," ","T","A","G">>,
       <<"C","I","R","C","U","I","T"," ","I","D">>,
       <<"D","E","S","C","R","I","P","T","I","O","N">>,
       <<"S","Y","S","T","E","M">>,
       <<"M","A","N","U","F","A","C","T","U","R","E","R">>,
       <<"T","Y","P","E","/","M","O","D","E","L">>,
       <<"S","E","R","I","A","L"," ","N","U","M","B","E","R">>,
       <<"E","x"," ","P","R","O","T","E","C","T","I","O","N">>,
       <<"E","P","L">>,
       <<"C","E","R","T","I","F","I","E","D"," ","B","O","D","Y">>,
       <<"E","x"," ","C","E","R","T"," ","N","o">>,
       <<"D","A","T","E"," ","I","N","S","P","E","C","T","E","D">>,
       <<"P","R","O","J","E","C","T"," ","W","B","S"," ","N","O">>,
       <<"E","X"," ","I","N","S","P","E","C","T","I","O","N"," ","T","A","G"," ","N","o">>,
       <<"A","R","E","A"," ","C","L","A","S","S","I","F","I","C","A","T","I","O","N">>,
       <<"A","R","E","A"," ","C","L","A","S","S">>,
       <<"L","A","Y","O","U","T"," ","D","W","G">>,
       <<"L","O","C","A","T","I","O","N">>,
       <<"A","R","E","A">>,
       <<"G","R","I","D"," ","R","E","F","E","R","E","N","C","E">>,
       <<"A","C","C","E","S","S"," ","A","R","R","A","N","G","E","M","E","N","T">>,
       <<"I","P"," ","R","A","T","I","N","G">>,
       <<"R","E","P","A","I","R"," ","C","A","T","E","G","O","R","Y">>,
       <<"N","E","X","T"," ","I","N","S","P","E","C","T","I","O","N"," ","D","U","E">>,
       <<"P","A","S","S"," ","/"," ","F","A","I","L">>,
       <<"F","i","l","e","n","a","m","e">> >>

\* The dictionary key "Filename": the last name of FIELDS and the key the
\* records are created with.
Filename == <<"F","i","l","e","n","a","m","e">>

\* A field is named by its place in FIELDS.
FieldIds == DOMAIN FIELDS
FilenameId == CHOOSE f \in FieldIds : FIELDS[f] = Filename

Whitespace == {" ", "\n", "\t"}

RECURSIVE LStrip(_)
LStrip(s) == IF s # <<>> /\ Head(s) \in Whitespace THEN LStrip(Tail(s)) ELSE s

RECURSIVE RStrip(_)
RStrip(s) ==
    IF s # <<>> /\ s[Len(s)] \in Whitespace
    THEN RStrip(SubSeq(s, 1, Len(s) - 1))
    ELSE s

\* str.strip()
Strip(s) == RStrip(LStrip(s))

UpperAlnum == Digits \cup {UpperChars[i] : i \in 1..Len(UpperChars)}

IsUpperAlnum(c) == c \in UpperAlnum

\* re.sub(r'[^A-Z0-9]', "", text.upper())
_normalize_key(text) == SelectSeq(Upper(text), IsUpperAlnum)

\* normalized_map, read from the field to its key; the keys are pairwise
\* different, so the dictionary of the code is this function inverted.
normalized_map ==
    [f \in FieldIds \ {FilenameId} |-> _normalize_key(FIELDS[f])]

NormalizedKeys == {normalized_map[f] : f \in DOMAIN normalized_map}

\* key in normalized_map
InNormalizedMap(key) == key \in NormalizedKeys

FieldOfKey(key) == CHOOSE f \in DOMAIN normalized_map : normalized_map[f] = key

Abs(n) == IF n < 0 THEN 0 - n ELSE n

\* y_position is kept in quarter points: (y0 + y1) / 2 of integer
\* coordinates, and the mean of two such centres, are then integers.
YPosition(bbox) == 2 * (bbox[2] + bbox[4])

\* OmanProcessor._extract_spans / oman.extract_spans: strip each span,
\* drop the empty ones.
_extract_spans(raw) ==
    LET one(r) ==
            LET text == Strip(r.text)
            IN  IF text = <<>> THEN <<>>
                ELSE << [text |-> text,
                         normalized_key |-> _normalize_key(text),
                         bbox |-> r.bbox,
                         y_position |-> YPosition(r.bbox)] >>
    IN  Concat([i \in 1..Len(raw) |-> one(raw[i])])

\* int(span["y_position"] // Y_TOLERANCE)
RowKey(span) == span.y_position \div (4 * Y_TOLERANCE)

\* the keys of the rows dictionary, in insertion order: the row of each
\* span that is the first of its row
RowKeys(spans) ==
    LET first(i) == \A j \in 1..(i - 1) : RowKey(spans[j]) # RowKey(spans[i])
        firsts == SelectSeq([i \in 1..Len(spans) |-> i], first)
    IN  [n \in 1..Len(firsts) |-> RowKey(spans[firsts[n]])]

RowOf(spans, k) == SelectSeq(spans, LAMBDA s : RowKey(s) = k)

RECURSIVE InsertByX0(_, _)
InsertByX0(sorted, s) ==
    IF sorted = <<>> THEN <<s>>
    ELSE IF Head(sorted).bbox[1] <= s.bbox[1]
         THEN <<Head(sorted)>> \o InsertByX0(Tail(sorted), s)
         ELSE <<s>> \o sorted

RECURSIVE SortByX0(_)
\* row_spans.sort(key=lambda s: s["bbox"][0]): stable
SortByX0(row) ==
    IF row = <<>> THEN <<>>
    ELSE InsertByX0(SortByX0(SubSeq(row, 1, Len(row) - 1)), row[Len(row)])

CombinedText(row, i, j) == Concat([k \in 1..(j - i + 1) |-> row[i + k - 1].text])

\* Mutant of MergedAt: the inner loop has no break, every concatenation of
\* the window that is a field key gives a merged span.
MergedAtNoBreak(row, i) ==
    LET last == IF i + 4 < Len(row) THEN i + 4 ELSE Len(row)
        one(j) ==
            LET text == CombinedText(row, i, j)
            IN  IF InNormalizedMap(_normalize_key(text))
                THEN << [text |-> text,
                         normalized_key |-> _normalize_key(text),
                         bbox |-> <<row[i].bbox[1], row[i].bbox[2],
                                    row[j].bbox[3], row[j].bbox[4]>>,
                         y_position |->
                             (row[i].y_position + row[j].y_position) \div 2] >>
                ELSE <<>>
    IN  Concat([n \in 1..(last - i) |-> one(i + n)])

\* Mutant of MergedAt: the longest concatenation of the window that is a
\* field key is taken, not the first.
MergedAtLongest(row, i) ==
    LET last == IF i + 4 < Len(row) THEN i + 4 ELSE Len(row)
        js == { j \in (i + 1)..last :
                    InNormalizedMap(_normalize_key(CombinedText(row, i, j))) }
    IN  IF js = {} THEN <<>>
        ELSE LET j == CHOOSE m \in js : \A n \in js : m >= n
                 text == CombinedText(row, i, j)
             IN  << [text |-> text,
                     normalized_key |-> _normalize_key(text),
                     bbox |-> <<row[i].bbox[1], row[i].bbox[2],
                                row[j].bbox[3], row[j].bbox[4]>>,
                     y_position |->
                         (row[i].y_position + row[j].y_position) \div 2] >>

\* the inner loop at start index i: the first j in i+1 .. min(i+5, n)-1
\* (0-based) whose concatenation is a field key gives one merged span
MergedAt(row, i) ==
    LET last == IF i + 4 < Len(row) THEN i + 4 ELSE Len(row)
        js == { j \in (i + 1)..last :
                    InNormalizedMap(_normalize_key(CombinedText(row, i, j))) }
    IN  IF js = {} THEN <<>>
        ELSE LET j == CHOOSE m \in js : \A n \in js : m <= n
                 text == CombinedText(row, i, j)
             IN  << [text |-> text,
                     normalized_key |-> _normalize_key(text),
                     bbox |-> <<row[i].bbox[1], row[i].bbox[2],
                                row[j].bbox[3], row[j].bbox[4]>>,
                     y_position |->
                         (row[i].y_position + row[j].y_position) \div 2] >>

MergedSpans(spans) ==
    LET keys == RowKeys(spans)
        ofRow(k) ==
            LET row == SortByX0(RowOf(spans, k))
            IN  Concat([i \in 1..Len(row) |-> MergedAt(row, i)])
    IN  Concat([r \in 1..Len(keys) |-> ofRow(keys[r])])

\* OmanProcessor._extend_spans_with_merged / oman.extend_spans_with_merged
_extend_spans_with_merged(spans) == spans \o MergedSpans(spans)

IsKey(span) == InNormalizedMap(span.normalized_key)

IsValue(span) == ~InNormalizedMap(span.normalized_key)

\* the candidate test of both implementations
IsCandidate(key_span, value_span) ==
    /\ Abs(value_span.y_position - key_span.y_position) <= 4 * Y_TOLERANCE
    /\ value_span.bbox[1] > key_span.bbox[3]

Distance(key_span, value_span) == value_span.bbox[1] - key_span.bbox[3]

RECURSIVE MinScan(_, _, _)
\* min(candidates) over (distance, span) tuples: an equal distance makes
\* Python compare the two span dictionaries, which raises TypeError unless
\* they are equal.
MinScan(cands, key_span, best) ==
    IF cands = <<>> THEN [raised |-> FALSE, span |-> best]
    ELSE LET c == Head(cands)
             d == Distance(key_span, c)
             db == Distance(key_span, best)
         IN  IF d < db THEN MinScan(Tail(cands), key_span, c)
             ELSE IF d > db \/ c = best THEN MinScan(Tail(cands), key_span, best)
             ELSE [raised |-> TRUE]

SetItem(dict, k, v) == [x \in DOMAIN dict \cup {k} |-> IF x = k THEN v ELSE dict[x]]

\* for field in FIELDS: metadata.setdefault(field, "")
SetDefaults(dict) == [f \in FieldIds |-> IF f \in DOMAIN dict THEN dict[f] ELSE <<>>]

\* [field for field in FIELDS if not metadata[field].strip()]
MissingFields(metadata) ==
    SelectSeq([f \in FieldIds |-> f], LAMBDA f : Strip(metadata[f]) = <<>>)

RECURSIVE MatchKeys(_, _, _, _)
\* lines 120-139 of oman_processor.py: every key against the same values
MatchKeys(keys, values, metadata, chosen) ==
    IF keys = <<>> THEN [raised |-> FALSE, metadata |-> metadata, chosen |-> chosen]
    ELSE LET key_span == Head(keys)
             field_name == FieldOfKey(key_span.normalized_key)
             candidates == SelectSeq(values, LAMBDA v : IsCandidate(key_span, v))
         IN  IF candidates = <<>>
             THEN MatchKeys(Tail(keys), values,
                            SetItem(metadata, field_name, <<>>), chosen)
             ELSE LET m == MinScan(Tail(candidates), key_span, Head(candidates))
                  IN  IF m.raised THEN [raised |-> TRUE]
                      ELSE MatchKeys(Tail(keys), values,
                                     SetItem(metadata, field_name, Strip(m.span.text)),
                                     Append(chosen, [label |-> key_span, value |-> m.span]))

\* OmanProcessor._parse_certificate
_parse_certificate(raw, sequence_number, filename) ==
    LET spans == _extend_spans_with_merged(_extract_spans(raw))
        keys == SelectSeq(spans, IsKey)
        values == SelectSeq(spans, IsValue)
        m == MatchKeys(keys, values, (FilenameId :> filename), <<>>)
    IN  IF m.raised THEN [raised |-> TRUE]
        ELSE LET metadata == SetDefaults(m.metadata)
             IN  [raised |-> FALSE,
                  sl_no |-> sequence_number,
                  metadata |-> metadata,
                  missing_fields |-> MissingFields(metadata),
                  chosen |-> m.chosen]

\* dict.update(other)
Update(dict, other) ==
    [x \in DOMAIN dict \cup DOMAIN other |->
        IF x \in DOMAIN other THEN other[x] ELSE dict[x]]

\* blank_record = {"Sl. No": ..., "Filename": filename}
\* blank_record.update({field: "" for field in self.FIELDS})
BlankRecord(filename) ==
    Update((FilenameId :> filename), [f \in FieldIds |-> <<>>])

\* OmanProcessor._process_single_pdf: the record appended to self.records
_process_single_pdf(p, sequence_number, filename) ==
    IF p.raised \/ p.missing_fields # <<>>
    THEN [sl_no |-> sequence_number,
          values |-> BlankRecord(filename)]
    ELSE [sl_no |-> p.sl_no, values |-> p.metadata]

RECURSIVE RemoveFirst(_, _)
\* list.remove(x)
RemoveFirst(s, x) ==
    IF s = <<>> THEN <<>>
    ELSE IF Head(s) = x THEN Tail(s)
    ELSE <<Head(s)>> \o RemoveFirst(Tail(s), x)

RECURSIVE FirstNearest(_, _, _)
\* cands.sort(key=lambda x: x[0]); cands[0]: the first of the nearest
FirstNearest(cands, key_span, best) ==
    IF cands = <<>> THEN best
    ELSE IF Distance(key_span, Head(cands)) < Distance(key_span, best)
         THEN FirstNearest(Tail(cands), key_span, Head(cands))
         ELSE FirstNearest(Tail(cands), key_span, best)

RECURSIVE MatchKeysOld(_, _, _, _)
\* lines 130-147 of oman.py: the chosen span leaves value_spans
MatchKeysOld(keys, values, meta, chosen) ==
    IF keys = <<>> THEN [meta |-> meta, chosen |-> chosen]
    ELSE LET k == Head(keys)
             fld == FieldOfKey(k.normalized_key)
             cands == SelectSeq(values, LAMBDA v : IsCandidate(k, v))
         IN  IF cands = <<>>
             THEN MatchKeysOld(Tail(keys), values, SetItem(meta, fld, <<>>), chosen)
             ELSE LET c == FirstNearest(Tail(cands), k, Head(cands))
                  IN  MatchKeysOld(Tail(keys), RemoveFirst(values, c),
                                   SetItem(meta, fld, Strip(c.text)),
                                   Append(chosen, [label |-> k, value |-> c]))

\* oman.parse_certificate
parse_certificate(raw, seq_no, filename) ==
    LET spans == _extend_spans_with_merged(_extract_spans(raw))
        key_spans == SelectSeq(spans, IsKey)
        value_spans == SelectSeq(spans, IsValue)
        m == MatchKeysOld(key_spans, value_spans, (FilenameId :> filename), <<>>)
        meta == SetDefaults(m.meta)
    IN  [raised |-> FALSE,
         sl_no |-> seq_no,
         metadata |-> meta,
         missing_fields |-> MissingFields(meta),
         chosen |-> m.chosen]

\* oman.main, lines 186-194: setdefault keeps Sl. No and Filename
main_record(p, idx, name) ==
    IF p.missing_fields # <<>>
    THEN [sl_no |-> idx, values |-> SetDefaults((FilenameId :> name))]
    ELSE [sl_no |-> p.sl_no, values |-> p.metadata]

(* The page-1 spans of one certificate, one span per box of Boxes, listed *)
(* in box order or in reverse: either at most MaxSpans spans alone, or    *)
(* the rows of a template, which carries every other label with a value   *)
(* to its right, followed by at most MaxTemplateSpans spans.              *)

MaxSpans == 4
MaxTemplateSpans == 2

\* x0, y0, x1, y1.  Boxes 1, 2 and 5 are 8 points high; 3 and 4 are the
\* two lines of a two-line entry, 4 points each; box 6 is a row further down.
Boxes ==
    << <<0, 0, 15, 8>>, <<20, 2, 35, 10>>, <<40, 0, 55, 4>>,
       <<40, 4, 55, 8>>, <<60, 0, 75, 8>>, <<0, 20, 15, 28>> >>

SpanTexts ==
    { <<"E","P","L">>, <<"A","r","e","a">>, <<"C","l","a","s","s">>,
      <<" ","G","a">> }

\* the field the template leaves to the spans in Boxes
FocusFields == { f \in FieldIds : FIELDS[f] = <<"E","P","L">> }

DigitChars == <<"0","1","2","3","4","5","6","7","8","9">>

TemplateRow(f) ==
    << [text |-> FIELDS[f], bbox |-> <<0, 100 + 20 * f, 15, 108 + 20 * f>>],
       [text |-> <<"v", DigitChars[(f \div 10) + 1], DigitChars[(f % 10) + 1]>>,
        bbox |-> <<20, 100 + 20 * f, 35, 108 + 20 * f>>] >>

TemplateSpans ==
    Concat([f \in 1..Len(FIELDS) |->
              IF f = FilenameId \/ f \in FocusFields THEN <<>> ELSE TemplateRow(f)])

Reverse(s) == [i \in 1..Len(s) |-> s[Len(s) + 1 - i]]

SpanCount(a) == Cardinality({b \in DOMAIN Boxes : a[b] # <<>>})

Layouts == { a \in [DOMAIN Boxes -> SpanTexts \cup {<<>>}] : SpanCount(a) <= MaxSpans }

SpansOfLayout(a) ==
    Concat([b \in 1..Len(Boxes) |->
              IF a[b] = <<>> THEN <<>> ELSE <<[text |-> a[b], bbox |-> Boxes[b]]>>])

\* the document processed: Sl. No 1, file a.pdf
SequenceNumber == 1
PdfName == <<"a",".","p","d","f">>

InitOman ==
    /\ \E a \in Layouts, rev \in BOOLEAN, template \in BOOLEAN :
          /\ template => SpanCount(a) <= MaxTemplateSpans
          /\ raw_spans = (IF template THEN TemplateSpans ELSE <<>>)
                         \o (IF rev THEN Reverse(SpansOfLayout(a)) ELSE SpansOfLayout(a))
    /\ oman_pc = "start"
    /\ parsed = <<>>
    /\ records = <<>>
    /\ parsed_old = <<>>
    /\ records_old = <<>>
    /\ extended = <<>>
    /\ ClassifyOff
    /\ RunOff
    /\ GuiOff
    /\ ProservOff

\* OmanProcessor._process_single_pdf on the document
ProcessSinglePdf ==
    /\ oman_pc = "start"
    /\ LET p == _parse_certificate(raw_spans, SequenceNumber, PdfName)
       IN  /\ parsed' = p
           /\ records' = Append(records, _process_single_pdf(p, SequenceNumber, PdfName))
    /\ oman_pc' = "processed"
    /\ UNCHANGED <<raw_spans, parsed_old, records_old, extended>>
    /\ UNCHANGED <<varsClassify, varsRun, varsGui, varsProserv>>

\* one iteration of the loop of oman.main on the same document
OldMainIteration ==
    /\ oman_pc = "processed"
    /\ LET p == parse_certificate(raw_spans, SequenceNumber, PdfName)
       IN  /\ parsed_old' = p
           /\ records_old' = Append(records_old, main_record(p, SequenceNumber, PdfName))
    /\ oman_pc' = "done"
    /\ UNCHANGED <<raw_spans, parsed, records, extended>>
    /\ UNCHANGED <<varsClassify, varsRun, varsGui, varsProserv>>

NextOman == ProcessSinglePdf \/ OldMainIteration

SpecOman == InitOman /\ [][NextOman]_vars


(* One printed line broken into fragments, for the span reconstruction:   *)
(* fragment k of the line lies at x0 = 20 (k - 1).  In a line of at most  *)
(* MaxExampleRow fragments one fragment may sit 2 points lower, which     *)
(* puts its centre into the next row bucket, or, among the pieces of      *)
(* PROJECT DESCRIPTION, one may be 6 points high instead of 8, which      *)
(* leaves its centre in the same bucket.                                  *)

MaxRow == 6
MaxExampleRow == 4

\* pieces of the labels AREA and AREA CLASS, and a rule
RowTexts ==
    { <<"A","R">>, <<"E","A">>, <<"-">>, <<"C","L","A","S","S">> }

\* pieces of PROJECT DESCRIPTION
ExampleTexts ==
    { <<"P","R","O","J","E","C","T">>, <<"D","E","S","C">>,
      <<"R","I","P","T","I","O","N">>, <<"-">> }

RowsOver(texts, n) == UNION { [1..k -> texts] : k \in 0..n }

FragmentRows == RowsOver(RowTexts, MaxRow) \cup RowsOver(ExampleTexts, MaxExampleRow)

\* the spans of a printed line: 8 points high, the fragment at place
\* `lowered` set 2 points lower and the one at place `small` in a smaller
\* type, 6 points high on the same top edge
FragmentSpans(row, lowered, small) ==
    [k \in 1..Len(row) |->
        [text |-> row[k],
         bbox |-> IF k = lowered
                  THEN <<20 * (k - 1), 2, 20 * (k - 1) + 15, 10>>
                  ELSE IF k = small
                  THEN <<20 * (k - 1), 0, 20 * (k - 1) + 15, 6>>
                  ELSE <<20 * (k - 1), 0, 20 * (k - 1) + 15, 8>>]]

InitMerge ==
    /\ \E row \in FragmentRows, rev \in BOOLEAN, lowered \in 0..(MaxRow + 1),
          small \in 0..(MaxExampleRow + 1) :
          /\ lowered <= Len(row)
          /\ small <= Len(row)
          /\ lowered # 0 => Len(row) <= MaxExampleRow
          /\ small # 0 => row \in RowsOver(ExampleTexts, MaxExampleRow) /\ lowered = 0
          /\ raw_spans = IF rev THEN Reverse(FragmentSpans(row, lowered, small))
                         ELSE FragmentSpans(row, lowered, small)
    /\ oman_pc = "fragments"
    /\ parsed = <<>>
    /\ records = <<>>
    /\ parsed_old = <<>>
    /\ records_old = <<>>
    /\ extended = <<>>
    /\ ClassifyOff
    /\ RunOff
    /\ GuiOff
    /\ ProservOff

\* lines 105-108 of _parse_certificate: the spans, then the merged spans
ExtendSpans ==
    /\ oman_pc = "fragments"
    /\ extended' = _extend_spans_with_merged(_extract_spans(raw_spans))
    /\ oman_pc' = "extended"
    /\ UNCHANGED <<raw_spans, parsed, records, parsed_old, records_old>>
    /\ UNCHANGED <<varsClassify, varsRun, varsGui, varsProserv>>

NextMerge == ExtendSpans

SpecMerge == InitMerge /\ [][NextMerge]_vars

-----------------------------------------------------------------------------
(* ProservProcessor: src/src/proserv_processor.py                          *)
(* A table is [ncols, rows], rows a sequence of rows of ncols cells, as    *)
(* camelot's table.df holds them (cell texts without surrounding blanks).  *)

LowerOf ==
    [c \in {UpperChars[i] : i \in 1..Len(UpperChars)} |->
        LowerChars[CHOOSE i \in 1..Len(UpperChars) : UpperChars[i] = c]]

\* str.lower()
Lower(s) == [i \in 1..Len(s) |-> IF s[i] \in DOMAIN LowerOf THEN LowerOf[s[i]] ELSE s[i]]

EXPECTED_COLS == 18

TOKENS ==
    << <<"S","-","N","o">>,
       <<"E","q","u","i","p","m","e","n","t"," ","T","a","g">>,
       <<"P","a","s","s","/","F","a","i","l">> >>

EQUIPMENT_ID == <<"E","q","u","i","p","m","e","n","t"," ","I","D">>

\* has_header_tokens(row), lines 205-208
has_header_tokens(row) ==
    \A t \in 1..Len(TOKENS) :
        \E c \in 1..Len(row) : Contains(Lower(row[c]), Lower(TOKENS[t]))

\* df.iloc[0].astype(str) + " " + df.iloc[1].astype(str)
MergedRow(rows) == [c \in 1..Len(rows[1]) |-> rows[1][c] \o <<" ">> \o rows[2][c]]

\* the index of the first row with all tokens, 0 when there is none
HeaderIdx(rows) ==
    LET hs == {i \in 1..Len(rows) : has_header_tokens(rows[i])}
    IN  IF hs = {} THEN 0 ELSE CHOOSE i \in hs : \A k \in hs : i <= k

\* Mutant of _process_headers: the merge of rows 0 and 1 is tested before
\* the single rows.
ProcessHeadersMergeFirst(rows) ==
    LET h == HeaderIdx(rows)
    IN  IF Len(rows) > 1 /\ has_header_tokens(MergedRow(rows))
        THEN [header |-> "merged", rows |-> SubSeq(rows, 3, Len(rows))]
        ELSE IF h # 0
             THEN [header |-> "single", rows |-> SubSeq(rows, h + 1, Len(rows))]
             ELSE [header |-> "none", rows |-> rows]

\* ProservProcessor._process_headers: the rows that stay as data
_process_headers(rows) ==
    LET h == HeaderIdx(rows)
    IN  IF h = 0 /\ Len(rows) > 1 /\ has_header_tokens(MergedRow(rows))
        THEN [header |-> "merged", rows |-> SubSeq(rows, 3, Len(rows))]
        ELSE IF h # 0
             THEN [header |-> "single", rows |-> SubSeq(rows, h + 1, Len(rows))]
             ELSE [header |-> "none", rows |-> rows]

\* Mutant of MatchDigits: the pattern ^\d*$, which the empty cell matches.
MatchDigitsOrEmpty(cell) ==
    LET body == IF cell # <<>> /\ cell[Len(cell)] = "\n"
                THEN SubSeq(cell, 1, Len(cell) - 1) ELSE cell
    IN  \A i \in 1..Len(body) : body[i] \in Digits

\* str.match(r'^\d+$'): one or more digits; $ also matches before a final
\* newline
MatchDigits(cell) ==
    LET body == IF cell # <<>> /\ cell[Len(cell)] = "\n"
                THEN SubSeq(cell, 1, Len(cell) - 1) ELSE cell
    IN  /\ body # <<>>
        /\ \A i \in 1..Len(body) : body[i] \in Digits

\* df.iloc[:, :EXPECTED_COLS] on one row
FirstCols(row) == SubSeq(row, 1, EXPECTED_COLS)

\* Mutant of FilterRows: the rows are cut to 18 columns and none is dropped.
FilterRowsKeepAll(rows) == [i \in 1..Len(rows) |-> FirstCols(rows[i])]

\* lines 186-188: 18 columns, rows whose S-No. matches
FilterRows(rows) ==
    SelectSeq([i \in 1..Len(rows) |-> FirstCols(rows[i])], LAMBDA r : MatchDigits(r[1]))

\* str.splitlines() on "\n": a final newline ends the last line and opens
\* no further one
RECURSIVE SplitLines(_)
SplitLines(text) ==
    IF text = <<>> THEN <<>>
    ELSE LET nl == {i \in 1..Len(text) : text[i] = "\n"}
         IN  IF nl = {} THEN <<text>>
             ELSE LET n == CHOOSE i \in nl : \A k \in nl : i <= k
                  IN  <<SubSeq(text, 1, n - 1)>> \o SplitLines(SubSeq(text, n + 1, Len(text)))

\* Mutant of _extract_equipment_id: a marker line without a line 5 below
\* it ends the search, and the last line is taken instead.
ExtractEquipmentIdLastLine(pdf) ==
    IF ~pdf.readable \/ pdf.page_count = 0 THEN <<>>
    ELSE LET lines == SplitLines(pdf.page1)
             ms == {i \in 1..Len(lines) : Contains(lines[i], EQUIPMENT_ID)}
         IN  IF ms = {} THEN <<>>
             ELSE LET m == CHOOSE i \in ms : \A k \in ms : i <= k
                  IN  IF m + 5 <= Len(lines) THEN Strip(lines[m + 5])
                      ELSE Strip(lines[Len(lines)])

\* ProservProcessor._extract_equipment_id; fitz.open raising and doc[0] of
\* a document without pages are caught (line 132)
_extract_equipment_id(pdf) ==
    IF ~pdf.readable \/ pdf.page_count = 0 THEN <<>>
    ELSE LET lines == SplitLines(pdf.page1)
             ms == {i \in 1..Len(lines) :
                       Contains(lines[i], EQUIPMENT_ID) /\ i + 5 <= Len(lines)}
         IN  IF ms = {} THEN <<>>
             ELSE Strip(lines[(CHOOSE i \in ms : \A k \in ms : i <= k) + 5])

\* camelot.read_pdf(temp_pdf, pages=str(page), flavor=flavor): what the
\* document holds for that strategy on that page
read_pdf(pdf, page, flavor) ==
    IF page = pdf.page_count THEN pdf[flavor] ELSE pdf.other_pages

NoDataframe(calls) ==
    [none |-> TRUE, rows |-> <<>>, calls |-> calls, headerless |-> <<>>]

\* lines 176-189: the first table of the list camelot returned
FromTables(tables, calls) ==
    IF tables.raised \/ Len(tables.tables) = 0 THEN NoDataframe(calls)
    ELSE LET df == _process_headers(tables.tables[1].rows)
         IN  IF tables.tables[1].ncols < EXPECTED_COLS
             THEN [NoDataframe(calls) EXCEPT !.headerless = df.rows]
             ELSE [none |-> FALSE, rows |-> FilterRows(df.rows),
                   calls |-> calls, headerless |-> df.rows]

\* Mutant of _extract_table_data: both strategies are always run and the
\* stream result is preferred.
ExtractTableDataStreamToo(pdf) ==
    IF ~pdf.readable \/ pdf.page_count = 0 THEN NoDataframe(<<>>)
    ELSE LET last_page == pdf.page_count
             lattice == read_pdf(pdf, last_page, "lattice")
             stream == read_pdf(pdf, last_page, "stream")
             both == <<[flavor |-> "lattice", pages |-> last_page],
                       [flavor |-> "stream", pages |-> last_page]>>
         IN  FromTables(IF stream.raised \/ Len(stream.tables) = 0
                        THEN lattice ELSE stream, both)

\* ProservProcessor._extract_table_data.  calls lists the read_pdf calls
\* made; headerless is df after _process_headers (line 177).  A document
\* that cannot be opened, or has no page to save, ends in the outer except.
_extract_table_data(pdf) ==
    IF ~pdf.readable \/ pdf.page_count = 0 THEN NoDataframe(<<>>)
    ELSE LET last_page == pdf.page_count
             lattice == read_pdf(pdf, last_page, "lattice")
             stream == read_pdf(pdf, last_page, "stream")
             one == <<[flavor |-> "lattice", pages |-> last_page]>>
             both == one \o <<[flavor |-> "stream", pages |-> last_page]>>
         IN  IF ~lattice.raised /\ Len(lattice.tables) > 0
             THEN FromTables(lattice, one)
             ELSE FromTables(IF stream.raised THEN lattice ELSE stream, both)

\* lines 102-105: the dataframe with its two metadata columns
WithMetadata(rows, filename, id) ==
    [i \in 1..Len(rows) |->
        [cells |-> rows[i], Filename |-> filename, EquipmentID |-> id]]

\* Mutant of _process_single_pdf_proserv: a document without Equipment ID is reported
\* and contributes nothing.
ProcessSinglePdfIdRequired(pdf, filename, dfs, errs) ==
    LET id == _extract_equipment_id(pdf)
        df == _extract_table_data(pdf)
    IN  IF ~df.none /\ id # <<>>
        THEN [dataframes |-> Append(dfs, WithMetadata(df.rows, filename, id)),
              errors |-> errs, equipment_id |-> id, dataframe |-> df]
        ELSE [dataframes |-> dfs, errors |-> Append(errs, filename),
              equipment_id |-> id, dataframe |-> df]

\* ProservProcessor._process_single_pdf on self.dataframes and self.errors;
\* an error entry is kept as the file name it starts with
_process_single_pdf_proserv(pdf, filename, dfs, errs) ==
    LET id == _extract_equipment_id(pdf)
        df == _extract_table_data(pdf)
    IN  IF ~df.none
        THEN [dataframes |-> Append(dfs, WithMetadata(df.rows, filename, id)),
              errors |-> errs, equipment_id |-> id, dataframe |-> df]
        ELSE [dataframes |-> dfs, errors |-> Append(errs, filename),
              equipment_id |-> id, dataframe |-> df]

(* One Proserv certificate.  The rows of its tables are drawn from          *)
(* RowKinds: a header row in mixed case, a header printed on two rows, data *)
(* rows numbered 1 and 2 and a footer row.  Page 1 is a text of at most     *)
(* MaxLines lines: marker lines, lines with an identifier, empty lines.     *)

MaxTableRows == 4
MaxLines == 7

Chars(cell) ==
    CASE cell = "sno" -> <<"S","-","N","o",".">>
      [] cell = "tag" -> <<"E","q","u","i","p","m","e","n","t"," ","T","a","g"," ","#">>
      [] cell = "PASSFAIL" -> <<"P","A","S","S","/","F","A","I","L">>
      [] cell = "equipment" -> <<"E","q","u","i","p","m","e","n","t">>
      [] cell = "tag#" -> <<"T","a","g"," ","#">>
      [] cell = "passfail" -> <<"P","a","s","s","/","F","a","i","l">>
      [] cell = "Total" -> <<"T","o","t","a","l">>
      [] cell = "P-101" -> <<"P","-","1","0","1">>
      [] cell = "1" -> <<"1">>
      [] cell = "2" -> <<"2">>
      [] cell = "3" -> <<"3">>
      [] cell = "marker" -> <<"1"," ","E","q","u","i","p","m","e","n","t"," ","I","D",":">>
      [] cell = "id" -> <<" ","E","Q","-","7"," ">>
      [] OTHER -> <<>>

RowKinds ==
    { <<"sno", "tag", "PASSFAIL">>, <<"sno", "equipment", "passfail">>,
      <<"", "tag#", "">>, <<"1", "P-101", "passfail">>, <<"2", "P-101", "passfail">>,
      <<"Total", "", "">> }

ColumnCounts == {EXPECTED_COLS - 1, EXPECTED_COLS, EXPECTED_COLS + 1}

\* the row of a kind in a table of ncols columns: S-No. first, the tag
\* second, the verdict last
TableRow(kind, ncols) ==
    [c \in 1..ncols |->
        IF c = 1 THEN Chars(kind[1])
        ELSE IF c = 2 THEN Chars(kind[2])
        ELSE IF c = ncols THEN Chars(kind[3]) ELSE <<"x">>]

TableOf(ks, n) == [ncols |-> n, rows |-> [i \in 1..Len(ks) |-> TableRow(ks[i], n)]]

StandardTable ==
    [ncols |-> EXPECTED_COLS,
     rows |-> << TableRow(<<"sno", "tag", "PASSFAIL">>, EXPECTED_COLS),
                 TableRow(<<"1", "P-101", "passfail">>, EXPECTED_COLS),
                 TableRow(<<"2", "P-101", "passfail">>, EXPECTED_COLS),
                 TableRow(<<"Total", "", "">>, EXPECTED_COLS),
                 TableRow(<<"3", "P-101", "passfail">>, EXPECTED_COLS) >>]

OtherTable ==
    [ncols |-> EXPECTED_COLS,
     rows |-> << TableRow(<<"2", "P-101", "passfail">>, EXPECTED_COLS) >>]

CamelotRaised == [raised |-> TRUE, tables |-> <<>>]

Found(tables) == [raised |-> FALSE, tables |-> tables]

CamelotOutcomes ==
    {CamelotRaised} \cup
    {Found(ts) : ts \in {<<>>, <<StandardTable>>, <<OtherTable>>,
                         <<StandardTable, OtherTable>>, <<OtherTable, StandardTable>>}}

LineKinds == {"marker", "id", ""}

\* "\n".join(lines)
RECURSIVE JoinLines(_)
JoinLines(ks) ==
    IF ks = <<>> THEN <<>>
    ELSE IF Len(ks) = 1 THEN Chars(ks[1])
    ELSE Chars(ks[1]) \o <<"\n">> \o JoinLines(Tail(ks))

StandardPage1 == JoinLines(<<"marker", "", "", "", "", "id">>)

ProservName == "proserv.pdf"

ProservDoc(r, n, p, l, s, o) ==
    [readable |-> r, page_count |-> n, page1 |-> p, lattice |-> l, stream |-> s,
     other_pages |-> o]

\* the documents: every table as the one lattice table, every pair of
\* outcomes of the two strategies, every page-1 text
InitProserv ==
    /\ \/ \E n \in ColumnCounts, ks \in RowsOver(RowKinds, MaxTableRows) :
             pdf_doc = ProservDoc(TRUE, 1, StandardPage1, Found(<<TableOf(ks, n)>>),
                                  CamelotRaised, Found(<<>>))
       \/ \E r \in BOOLEAN, n \in 0..2, l \in CamelotOutcomes, s \in CamelotOutcomes :
             pdf_doc = ProservDoc(r, n, StandardPage1, l, s, Found(<<OtherTable>>))
       \/ \E ks \in RowsOver(LineKinds, MaxLines),
             l \in {Found(<<>>), Found(<<StandardTable>>)} :
             pdf_doc = ProservDoc(TRUE, 1, JoinLines(ks), l, Found(<<>>), Found(<<>>))
    /\ proserv_pc = "start"
    /\ equipment_id = <<>>
    /\ dataframe = <<>>
    /\ dataframes = <<>>
    /\ errors = <<>>
    /\ ClassifyOff
    /\ OmanOff
    /\ RunOff
    /\ GuiOff

\* ProservProcessor._process_single_pdf(pdf_path)
ProcessSingleProservPdf ==
    /\ proserv_pc = "start"
    /\ LET r == _process_single_pdf_proserv(pdf_doc, ProservName, dataframes, errors)
       IN  /\ equipment_id' = r.equipment_id
           /\ dataframe' = r.dataframe
           /\ dataframes' = r.dataframes
           /\ errors' = r.errors
    /\ proserv_pc' = "processed"
    /\ UNCHANGED pdf_doc
    /\ UNCHANGED <<varsClassify, varsOman, varsRun, varsGui>>

NextProserv == ProcessSingleProservPdf

SpecProserv == InitProserv /\ [][NextProserv]_vars

-----------------------------------------------------------------------------
(* A run: CertificateProcessor.process_certificates,                       *)
(* src/src/certificate_processor.py                                        *)

\* The PDFs that may lie in the input folder, named by their place in
\* sorted filename order: a Proserv certificate, an Oman certificate, a PDF
\* with neither title, a PDF that cannot be opened, and a Proserv
\* certificate that also carries the Oman title and has no table; then a
\* Proserv certificate whose table has 17 columns, a second Proserv
\* certificate with a table, an Oman certificate with its EPL entry only
\* and a complete Oman certificate.  The Oman certificate at place 2 has two
\* values at the same distance from its EPL label.
DocText ==
    << <<"E","l","e","c","t","r","i","c","a","l"," ","E","q","u","i","p","m","e","n","t"," ","i","n"," ","H","a","z","a","r","d","o","u","s"," ","A","r","e","a","s">>,
       <<"V","I","S","U","A","L"," ","&"," ","C","L","O","S","E"," ","I","N","S","P","E","C","T","I","O","N"," ","R","E","P","O","R","T"," ","F","O","R">>,
       <<"C","e","r","t","i","f","i","c","a","t","e","\n">>,
       <<>>,
       <<"E","l","e","c","t","r","i","c","a","l"," ","E","q","u","i","p","m","e","n","t"," ","i","n"," ","H","a","z","a","r","d","o","u","s"," ","A","r","e","a","s","\n",
         "V","I","S","U","A","L"," ","&"," ","C","L","O","S","E"," ","I","N","S","P","E","C","T","I","O","N"," ","R","E","P","O","R","T"," ","F","O","R">>,
       <<"E","l","e","c","t","r","i","c","a","l"," ","E","q","u","i","p","m","e","n","t"," ","i","n"," ","H","a","z","a","r","d","o","u","s"," ","A","r","e","a","s">>,
       <<"E","l","e","c","t","r","i","c","a","l"," ","E","q","u","i","p","m","e","n","t"," ","i","n"," ","H","a","z","a","r","d","o","u","s"," ","A","r","e","a","s">>,
       <<"V","I","S","U","A","L"," ","&"," ","C","L","O","S","E"," ","I","N","S","P","E","C","T","I","O","N"," ","R","E","P","O","R","T"," ","F","O","R">>,
       <<"V","I","S","U","A","L"," ","&"," ","C","L","O","S","E"," ","I","N","S","P","E","C","T","I","O","N"," ","R","E","P","O","R","T"," ","F","O","R">> >>

DocStatus == <<"ok", "ok", "ok", "cannot_open", "ok", "ok", "ok", "ok", "ok">>

\* os.path.basename(pdf_path)
DocFilename == [d \in DOMAIN DocText |-> <<"d", DigitChars[d + 1], ".", "p", "d", "f">>]

SeventeenColumns ==
    [ncols |-> EXPECTED_COLS - 1,
     rows |-> << TableRow(<<"sno", "tag", "PASSFAIL">>, EXPECTED_COLS - 1),
                 TableRow(<<"1", "P-101", "passfail">>, EXPECTED_COLS - 1) >>]

\* what camelot finds on the last page of each document
DocTables ==
    << [lattice |-> Found(<<StandardTable>>), stream |-> Found(<<>>)],
       [lattice |-> Found(<<>>), stream |-> Found(<<>>)],
       [lattice |-> Found(<<>>), stream |-> Found(<<>>)],
       [lattice |-> CamelotRaised, stream |-> CamelotRaised],
       [lattice |-> Found(<<>>), stream |-> Found(<<>>)],
       [lattice |-> CamelotRaised, stream |-> Found(<<SeventeenColumns>>)],
       [lattice |-> Found(<<OtherTable>>), stream |-> Found(<<>>)],
       [lattice |-> Found(<<>>), stream |-> Found(<<>>)],
       [lattice |-> Found(<<>>), stream |-> Found(<<>>)] >>

\* the document as ProservProcessor reads it
DocPdf ==
    [d \in DOMAIN DocText |->
        ProservDoc(DocStatus[d] = "ok", 1, DocText[d], DocTables[d].lattice,
                   DocTables[d].stream, Found(<<>>))]

\* page.get_text("dict") of each document, as OmanProcessor reads it
DocSpans ==
    [d \in DOMAIN DocText |->
        IF d = 2 THEN << [text |-> <<"E","P","L">>, bbox |-> Boxes[2]],
                         [text |-> <<" ","G","a">>, bbox |-> Boxes[3]],
                         [text |-> <<" ","G","a">>, bbox |-> Boxes[4]] >>
        ELSE IF d = 8 THEN << [text |-> <<"E","P","L">>, bbox |-> Boxes[1]],
                              [text |-> <<" ","G","a">>, bbox |-> Boxes[2]] >>
        ELSE IF d = 9 THEN TemplateSpans \o
                           << [text |-> <<"E","P","L">>, bbox |-> Boxes[1]],
                              [text |-> <<" ","G","a">>, bbox |-> Boxes[2]] >>
        ELSE <<>>]

\* whether ProservProcessor gets a dataframe out of the document
DocHasTable == [d \in DOMAIN DocText |-> ~_extract_table_data(DocPdf[d]).none]

Docs == DOMAIN DocText

\* self._classify_certificate(pdf_file), line 89
DocClass == [d \in Docs |-> _classify_certificate(DocStatus[d], DocText[d])]

MaxRuns == 2
\* the PDFs of an input folder: any of the first five documents, or the
\* three Proserv certificates with a table
Folders ==
    (SUBSET (1..5)) \cup {{1, 6, 7}}

\* src/old/proserv.py, lines 116-119: the dataframe the script collects for
\* a document, cut to 18 columns, with its metadata, no row dropped yet
CollectedOld(d) ==
    LET df == _extract_table_data(DocPdf[d]).headerless
    IN  WithMetadata([i \in 1..Len(df) |-> FirstCols(df[i])], DocFilename[d],
                     _extract_equipment_id(DocPdf[d]))

\* src/old/proserv.py, lines 126-128: pd.concat, then the S-No. filter on
\* the whole dataset
MergeAndFilterOld(dfs) == SelectSeq(Concat(dfs), LAMBDA r : MatchDigits(r.cells[1]))

RECURSIVE ProservProcessFiles(_, _, _)
\* ProservProcessor.process, lines 81-82: _process_single_pdf on each file
ProservProcessFiles(files, dfs, errs) ==
    IF files = <<>> THEN [dataframes |-> dfs, errors |-> errs]
    ELSE LET r == _process_single_pdf_proserv(DocPdf[Head(files)],
                                               DocFilename[Head(files)], dfs, errs)
         IN  ProservProcessFiles(Tail(files), r.dataframes, r.errors)

RECURSIVE OmanProcessFilesPrepend(_, _, _)
\* Mutant of OmanProcessFiles: each record is put in front of the list.
OmanProcessFilesPrepend(files, idx, recs) ==
    IF files = <<>> THEN recs
    ELSE LET name == DocFilename[Head(files)]
             p == _parse_certificate(DocSpans[Head(files)], idx, name)
         IN  OmanProcessFilesPrepend(Tail(files), idx + 1,
                                     <<_process_single_pdf(p, idx, name)>> \o recs)

RECURSIVE OmanProcessFiles(_, _, _)
\* OmanProcessor.process, lines 65-66: _process_single_pdf(pdf_file, idx)
OmanProcessFiles(files, idx, recs) ==
    IF files = <<>> THEN recs
    ELSE LET name == DocFilename[Head(files)]
             p == _parse_certificate(DocSpans[Head(files)], idx, name)
         IN  OmanProcessFiles(Tail(files), idx + 1,
                              Append(recs, _process_single_pdf(p, idx, name)))

StatKeys == {"proserv", "oman", "unclassified", "errors"}

\* self.stats = {key: 0 for key in self.stats}, line 56
ResetStats == [k \in StatKeys |-> 0]

\* sorted(glob.glob(os.path.join(input_folder, "*.pdf")))
SortedFiles(files) == SelectSeq([d \in 1..Len(DocText) |-> d], LAMBDA d : d \in files)

\* shutil.rmtree(directory) as _setup_directories calls it.  Before the
\* first ProservProcessor() it is the library's, and any failure raises;
\* afterwards it is _robust_rmtree (proserv_processor.py, 50-66), which
\* retries a PermissionError with errno EACCES once and then leaves the
\* directory as it is.  `left` is what a failed removal leaves behind.
Rmtree(patched, outcome, left) ==
    IF outcome = "ok" THEN [raised |-> FALSE, content |-> {}]
    ELSE IF patched /\ outcome = "EACCES" THEN [raised |-> FALSE, content |-> left]
    ELSE [raised |-> TRUE, content |-> left]

RmtreeOutcomes(content) ==
    IF content = {} THEN {"ok"} ELSE {"ok", "EACCES", "other"}

Leftovers(content, outcome) ==
    IF outcome = "ok" THEN {{}} ELSE (SUBSET content) \ {{}}

\* CertificateProcessor._setup_directories: the Proserv directory, then the
\* Oman directory; os.makedirs(exist_ok=True) keeps what rmtree left.
_setup_directories(patched, outP, leftP, outO, leftO) ==
    LET p == Rmtree(patched, outP, leftP)
        o == Rmtree(patched, outO, leftO)
    IN  IF p.raised
        THEN [raised |-> TRUE, proserv |-> p.content, oman |-> oman_dir]
        ELSE [raised |-> o.raised, proserv |-> p.content, oman |-> o.content]

\* Mutant of DestDirs: a Proserv certificate is copied into both directories.
DestDirsBoth(c) ==
    IF c = "proserv" THEN {"proserv", "oman"}
    ELSE IF c = "oman" THEN {"oman"}
    ELSE {}

\* lines 92-100: the directory a classified file is copied into
DestDirs(c) ==
    IF c = "proserv" THEN {"proserv"}
    ELSE IF c = "oman" THEN {"oman"}
    ELSE {}

\* lines 88-111, the body of the loop for document d: where it is copied
\* and which counter is incremented; copy_ok is whether shutil.copy2 returned.
LoopBody(d, copy_ok) ==
    LET c == DocClass[d]
    IN  IF c \in {"proserv", "oman"}
        THEN IF copy_ok THEN [dirs |-> DestDirs(c), counter |-> c]
             ELSE [dirs |-> {}, counter |-> "errors"]
        ELSE [dirs |-> {}, counter |-> "unclassified"]

\* stats_callback(self.stats), lines 76-77 and 114-115: the call and the
\* counters as they are when it is made
StatsCall(after, counters) == [after |-> after, stats |-> counters]

\* the calls of a loop that classified and copied every file of `files`
StatsCallsOfLoop(files) ==
    <<StatsCall("setup", ResetStats)>> \o
    [k \in 1..Len(files) |->
        StatsCall("document",
                  [c \in StatKeys |->
                      Cardinality({i \in 1..k : LoopBody(files[i], TRUE).counter = c})])]

InitRun ==
    /\ run_pc = "idle"
    /\ runs = 0
    /\ pdf_files = <<>>
    /\ visited = 0
    /\ stats = [k \in StatKeys |-> 0]
    /\ proserv_dir = {}
    /\ oman_dir = {}
    /\ rmtree_patched = FALSE
    /\ copy_failed = {}
    /\ stop_requested = FALSE
    /\ proserv_run = "no"
    /\ oman_run = "no"
    /\ proserv_read = {}
    /\ oman_read = {}
    /\ stats_calls = <<>>
    /\ previous = <<>>

Init == InitRun /\ ClassifyOff /\ OmanOff /\ GuiOff /\ ProservOff

RunOver == run_pc \in {"idle", "done", "stopped", "failed"}

\* lines 48-77: a call of process_certificates on a folder holding `files`,
\* up to the first two callbacks.  No PDF in the folder raises ValueError.
StartOn(files) ==
    /\ RunOver
    /\ \E b \in BOOLEAN,
          outP \in RmtreeOutcomes(proserv_dir), outO \in RmtreeOutcomes(oman_dir) :
        \E leftP \in Leftovers(proserv_dir, outP), leftO \in Leftovers(oman_dir, outO) :
            LET setup == _setup_directories(rmtree_patched, outP, leftP, outO, leftO)
            IN  /\ runs' = runs + 1
                /\ stats' = ResetStats
                /\ visited' = 0
                /\ copy_failed' = {}
                /\ proserv_run' = "no"
                /\ oman_run' = "no"
                /\ proserv_read' = {}
                /\ oman_read' = {}
                /\ pdf_files' = SortedFiles(files)
                /\ IF files = {}
                   THEN /\ run_pc' = "failed"
                        /\ stop_requested' = FALSE
                        /\ UNCHANGED <<proserv_dir, oman_dir>>
                   ELSE /\ proserv_dir' = setup.proserv
                        /\ oman_dir' = setup.oman
                        /\ run_pc' = IF setup.raised THEN "failed" ELSE "loop"
                        /\ stop_requested' = (~setup.raised /\ ~b)
                /\ stats_calls' = IF files # {} /\ ~setup.raised
                                  THEN <<StatsCall("setup", ResetStats)>>
                                  ELSE <<>>
    /\ dataframes' = <<>>
    /\ errors' = <<>>
    /\ records' = <<>>
    /\ UNCHANGED rmtree_patched
    /\ UNCHANGED <<raw_spans, oman_pc, parsed, parsed_old, records_old, extended>>
    /\ UNCHANGED <<pdf_doc, proserv_pc, equipment_id, dataframe>>
    /\ UNCHANGED <<varsClassify, varsGui>>

\* process_certificates is called on some folder
StartRun ==
    /\ runs < MaxRuns
    /\ \E files \in Folders : StartOn(files)
    /\ previous' = <<>>

\* process_certificates is called again on the folder of a run that has
\* completed with every copy made; the folder is as it was, and what that
\* run left is kept for comparison.  The last of the MaxRuns runs can be
\* repeated too.
Rerun ==
    /\ runs <= MaxRuns
    /\ run_pc = "done"
    /\ copy_failed = {}
    /\ StartOn({pdf_files[k] : k \in 1..Len(pdf_files)})
    /\ previous' = [pdf_files |-> pdf_files, dataframes |-> dataframes,
                    records |-> records, written |-> <<proserv_run, oman_run>>]

\* lines 82-86: the callback before a document returns False, the call returns
LoopStop ==
    /\ run_pc = "loop"
    /\ run_pc' = "stopped"
    /\ stop_requested' = TRUE
    /\ UNCHANGED <<stats_calls, previous>>
    /\ UNCHANGED <<runs, pdf_files, visited, stats, proserv_dir, oman_dir,
                   rmtree_patched, copy_failed, proserv_run, oman_run,
                   proserv_read, oman_read>>
    /\ UNCHANGED <<varsClassify, varsOman, varsGui, varsProserv>>

\* lines 81-115: one iteration whose callback returned True
LoopVisit ==
    /\ run_pc = "loop"
    /\ \E copy_ok \in BOOLEAN :
        LET d == pdf_files[visited + 1]
            out == LoopBody(d, copy_ok)
        IN  /\ proserv_dir' = IF "proserv" \in out.dirs THEN proserv_dir \cup {d} ELSE proserv_dir
            /\ oman_dir' = IF "oman" \in out.dirs THEN oman_dir \cup {d} ELSE oman_dir
            /\ stats' = [stats EXCEPT ![out.counter] = @ + 1]
            /\ stats_calls' = Append(stats_calls, StatsCall("document", stats'))
            /\ copy_failed' = IF out.counter = "errors" THEN copy_failed \cup {d} ELSE copy_failed
    /\ visited' = visited + 1
    /\ run_pc' = IF visited + 1 = Len(pdf_files) THEN "proserv" ELSE "loop"
    /\ UNCHANGED <<runs, pdf_files, rmtree_patched, stop_requested,
                   proserv_run, oman_run, proserv_read, oman_read, previous>>
    /\ UNCHANGED <<varsClassify, varsOman, varsGui, varsProserv>>

\* lines 122-125: the callback, whose result is dropped, then
\* _run_proserv_processor: ProservProcessor() patches shutil.rmtree,
\* process() reads the directory, _generate_excel writes or raises.
RunProserv ==
    /\ run_pc = "proserv"
    /\ LET r == ProservProcessFiles(SortedFiles(proserv_dir), <<>>, <<>>)
       IN  /\ dataframes' = r.dataframes
           /\ errors' = r.errors
    /\ \E b \in BOOLEAN, write_ok \in BOOLEAN :
        LET with_table == {d \in proserv_dir : DocHasTable[d]}
            result == IF with_table = {} THEN "nothing"
                      ELSE IF write_ok THEN "written" ELSE "failed"
        IN  /\ stop_requested' = (stop_requested \/ ~b)
            /\ proserv_run' = result
            /\ run_pc' = IF result = "failed" THEN "failed" ELSE "oman"
    /\ rmtree_patched' = TRUE
    /\ proserv_read' = proserv_dir
    /\ UNCHANGED <<stats_calls, previous>>
    /\ UNCHANGED <<runs, pdf_files, visited, stats, proserv_dir, oman_dir,
                   copy_failed, oman_run, oman_read>>
    /\ UNCHANGED <<pdf_doc, proserv_pc, equipment_id, dataframe>>
    /\ UNCHANGED <<varsClassify, varsOman, varsGui>>

\* lines 127-130: the callback, whose result is dropped, then
\* _run_oman_processor: every file gives a record, _generate_excel writes
\* or raises.
RunOman ==
    /\ run_pc = "oman"
    /\ records' = OmanProcessFiles(SortedFiles(oman_dir), 1, <<>>)
    /\ \E b \in BOOLEAN, write_ok \in BOOLEAN :
        LET result == IF oman_dir = {} THEN "nothing"
                      ELSE IF write_ok THEN "written" ELSE "failed"
        IN  /\ stop_requested' = (stop_requested \/ ~b)
            /\ oman_run' = result
            /\ run_pc' = IF result = "failed" THEN "failed" ELSE "finish"
    /\ oman_read' = oman_dir
    /\ UNCHANGED <<stats_calls, previous>>
    /\ UNCHANGED <<runs, pdf_files, visited, stats, proserv_dir, oman_dir,
                   rmtree_patched, copy_failed, proserv_run, proserv_read>>
    /\ UNCHANGED <<raw_spans, oman_pc, parsed, parsed_old, records_old, extended>>
    /\ UNCHANGED <<varsClassify, varsGui, varsProserv>>

\* lines 132-136: the last callback, then the call returns
Finish ==
    /\ run_pc = "finish"
    /\ \E b \in BOOLEAN : stop_requested' = (stop_requested \/ ~b)
    /\ run_pc' = "done"
    /\ UNCHANGED <<stats_calls, previous>>
    /\ UNCHANGED <<runs, pdf_files, visited, stats, proserv_dir, oman_dir,
                   rmtree_patched, copy_failed, proserv_run, oman_run,
                   proserv_read, oman_read>>
    /\ UNCHANGED <<varsClassify, varsOman, varsGui, varsProserv>>

Next == StartRun \/ LoopStop \/ LoopVisit \/ RunProserv \/ RunOman \/ Finish

Spec == Init /\ [][Next]_vars

(* The extraction phase alone, lines 121-136: the first run of a process   *)
(* has classified a folder of Proserv and Oman certificates and copied     *)
(* every one of them.                                                      *)

ProservCertificates == {d \in Docs : DocClass[d] = "proserv"}
OmanCertificates == {d \in Docs : DocClass[d] = "oman"}

InitExtract ==
    /\ \E ps \in SUBSET ProservCertificates, os \in SUBSET OmanCertificates :
          /\ ps \cup os # {}
          /\ pdf_files = SortedFiles(ps \cup os)
          /\ visited = Cardinality(ps \cup os)
          /\ stats = [ResetStats EXCEPT !["proserv"] = Cardinality(ps),
                                        !["oman"] = Cardinality(os)]
          /\ proserv_dir = ps
          /\ oman_dir = os
          /\ stats_calls = StatsCallsOfLoop(SortedFiles(ps \cup os))
          /\ previous = <<>>
    /\ run_pc = "proserv"
    /\ runs = 1
    /\ rmtree_patched = FALSE
    /\ copy_failed = {}
    /\ stop_requested = FALSE
    /\ proserv_run = "no"
    /\ oman_run = "no"
    /\ proserv_read = {}
    /\ oman_read = {}
    /\ ClassifyOff
    /\ OmanOff
    /\ GuiOff
    /\ ProservOff

NextExtract == RunProserv \/ RunOman \/ Finish

SpecExtract == InitExtract /\ [][NextExtract]_vars

(* Runs of one process on folders that may be processed again as they are *)

NextRerun ==
    StartRun \/ Rerun \/ LoopStop \/ LoopVisit \/ RunProserv \/ RunOman \/ Finish

SpecRerun == Init /\ [][NextRerun]_vars

-----------------------------------------------------------------------------
(* src/main.py: the window of ProEXyApp, its buttons, its Tk callbacks and  *)
(* the worker threads it starts on the one CertificateProcessor it owns     *)

MaxThreads == 2

Threads == 1..MaxThreads

\* the folder the user has selected (folder_var), as its sorted PDFs
GuiFolders == {<<1, 2, 3>>, <<2>>}

\* a thread is inside process_certificates at these positions
InsideRun == {"loop", "proserv", "oman", "finish"}

\* what the application window does not touch
GuiRest ==
    UNCHANGED <<varsClassify, varsOman, varsProserv, run_pc, runs, visited, copy_failed,
                stop_requested, proserv_run, oman_run, proserv_read, oman_read,
                stats_calls, previous>>

\* ProEXyApp.__init__ and create_action_buttons
InitGui ==
    /\ is_processing = FALSE
    /\ process_btn = "normal"
    /\ stop_btn = "disabled"
    /\ after_timers = 0
    /\ after_idle = <<>>
    /\ thread = [w \in Threads |-> [pc |-> "unborn", visited |-> 0, copy_failed |-> {}]]
    /\ pdf_files \in GuiFolders
    /\ stats = [k \in StatKeys |-> 0]
    /\ proserv_dir = {}
    /\ oman_dir = {}
    /\ rmtree_patched = FALSE
    /\ run_pc = "off"
    /\ runs = 0
    /\ visited = 0
    /\ copy_failed = {}
    /\ stop_requested = FALSE
    /\ proserv_run = "no"
    /\ oman_run = "no"
    /\ proserv_read = {}
    /\ oman_read = {}
    /\ stats_calls = <<>>
    /\ previous = <<>>
    /\ ClassifyOff
    /\ OmanOff
    /\ ProservOff

\* a click on the Process button, which Tk delivers only while the button
\* is enabled: the folder holds PDFs, so a thread is started
start_processing ==
    /\ process_btn = "normal"
    /\ \E w \in Threads :
        /\ thread[w].pc = "unborn"
        /\ \A v \in Threads : v < w => thread[v].pc # "unborn"
        /\ thread' = [thread EXCEPT ![w].pc = "started"]
    /\ is_processing' = TRUE
    /\ process_btn' = "disabled"
    /\ stop_btn' = "normal"
    /\ UNCHANGED <<after_timers, after_idle, pdf_files, stats, proserv_dir,
                   oman_dir, rmtree_patched>>
    /\ GuiRest

\* a click on the Stop button
stop_processing ==
    /\ stop_btn = "normal"
    /\ is_processing' = FALSE
    /\ stop_btn' = "disabled"
    /\ after_timers' = after_timers + 1
    /\ UNCHANGED <<process_btn, after_idle, thread, pdf_files, stats,
                   proserv_dir, oman_dir, rmtree_patched>>
    /\ GuiRest

\* the timer set by stop_processing fires
reset_ui_after_stop ==
    /\ after_timers > 0
    /\ after_timers' = after_timers - 1
    /\ process_btn' = "normal"
    /\ UNCHANGED <<is_processing, stop_btn, after_idle, thread, pdf_files,
                   stats, proserv_dir, oman_dir, rmtree_patched>>
    /\ GuiRest

\* the callback a worker scheduled after process_certificates returned
processing_completed ==
    /\ after_idle # <<>>
    /\ Head(after_idle) = "processing_completed"
    /\ after_idle' = Tail(after_idle)
    /\ is_processing' = FALSE
    /\ process_btn' = "normal"
    /\ stop_btn' = "disabled"
    /\ UNCHANGED <<after_timers, thread, pdf_files, stats, proserv_dir,
                   oman_dir, rmtree_patched>>
    /\ GuiRest

\* the callback a worker scheduled after process_certificates raised
processing_failed ==
    /\ after_idle # <<>>
    /\ Head(after_idle) = "processing_failed"
    /\ after_idle' = Tail(after_idle)
    /\ is_processing' = FALSE
    /\ process_btn' = "normal"
    /\ stop_btn' = "disabled"
    /\ UNCHANGED <<after_timers, thread, pdf_files, stats, proserv_dir,
                   oman_dir, rmtree_patched>>
    /\ GuiRest

\* update_progress as a worker calls it: False once is_processing is False
update_progress == is_processing

\* _process_certificates_thread of a started thread, up to the loop of
\* process_certificates (lines 48-77 of certificate_processor.py): the
\* counters are reset and the directories set up on the shared processor.
ThreadEnter ==
    /\ \E w \in Threads :
        /\ thread[w].pc = "started"
        /\ \E outP \in RmtreeOutcomes(proserv_dir), outO \in RmtreeOutcomes(oman_dir) :
            \E leftP \in Leftovers(proserv_dir, outP), leftO \in Leftovers(oman_dir, outO) :
                LET setup == _setup_directories(rmtree_patched, outP, leftP, outO, leftO)
                IN  /\ proserv_dir' = setup.proserv
                    /\ oman_dir' = setup.oman
                    /\ thread' = [thread EXCEPT ![w] =
                           [pc |-> IF setup.raised THEN "raised" ELSE "loop",
                            visited |-> 0, copy_failed |-> {}]]
    /\ stats' = ResetStats
    /\ UNCHANGED <<is_processing, process_btn, stop_btn, after_timers,
                   after_idle, pdf_files, rmtree_patched>>
    /\ GuiRest

\* lines 82-86 in a worker: update_progress returned False
ThreadLoopStop ==
    /\ \E w \in Threads :
        /\ thread[w].pc = "loop"
        /\ ~update_progress
        /\ thread' = [thread EXCEPT ![w].pc = "returned"]
    /\ UNCHANGED <<is_processing, process_btn, stop_btn, after_timers,
                   after_idle, pdf_files, stats, proserv_dir, oman_dir,
                   rmtree_patched>>
    /\ GuiRest

\* lines 81-115 in a worker: one iteration of the loop
ThreadLoopVisit ==
    /\ \E w \in Threads, copy_ok \in BOOLEAN :
        /\ thread[w].pc = "loop"
        /\ update_progress
        /\ LET d == pdf_files[thread[w].visited + 1]
               out == LoopBody(d, copy_ok)
           IN  /\ proserv_dir' = IF "proserv" \in out.dirs THEN proserv_dir \cup {d} ELSE proserv_dir
               /\ oman_dir' = IF "oman" \in out.dirs THEN oman_dir \cup {d} ELSE oman_dir
               /\ stats' = [stats EXCEPT ![out.counter] = @ + 1]
               /\ thread' = [thread EXCEPT ![w] =
                      [pc |-> IF thread[w].visited + 1 = Len(pdf_files) THEN "proserv" ELSE "loop",
                       visited |-> thread[w].visited + 1,
                       copy_failed |-> IF out.counter = "errors" /\ DocClass[d] # None
                                       THEN thread[w].copy_failed \cup {d}
                                       ELSE thread[w].copy_failed]]
    /\ UNCHANGED <<is_processing, process_btn, stop_btn, after_timers,
                   after_idle, pdf_files, rmtree_patched>>
    /\ GuiRest

\* lines 122-125 in a worker: _run_proserv_processor
ThreadProserv ==
    /\ \E w \in Threads, write_ok \in BOOLEAN :
        /\ thread[w].pc = "proserv"
        /\ LET with_table == {d \in proserv_dir : DocHasTable[d]}
           IN  thread' = [thread EXCEPT ![w].pc =
                   IF with_table # {} /\ ~write_ok THEN "raised" ELSE "oman"]
    /\ rmtree_patched' = TRUE
    /\ UNCHANGED <<is_processing, process_btn, stop_btn, after_timers,
                   after_idle, pdf_files, stats, proserv_dir, oman_dir>>
    /\ GuiRest

\* lines 127-130 in a worker: _run_oman_processor
ThreadOman ==
    /\ \E w \in Threads, write_ok \in BOOLEAN :
        /\ thread[w].pc = "oman"
        /\ thread' = [thread EXCEPT ![w].pc =
               IF oman_dir # {} /\ ~write_ok THEN "raised" ELSE "finish"]
    /\ UNCHANGED <<is_processing, process_btn, stop_btn, after_timers,
                   after_idle, pdf_files, stats, proserv_dir, oman_dir,
                   rmtree_patched>>
    /\ GuiRest

\* lines 132-136 in a worker: the last callback and the final statistics
ThreadFinish ==
    /\ \E w \in Threads :
        /\ thread[w].pc = "finish"
        /\ thread' = [thread EXCEPT ![w].pc = "returned"]
    /\ UNCHANGED <<is_processing, process_btn, stop_btn, after_timers,
                   after_idle, pdf_files, stats, proserv_dir, oman_dir,
                   rmtree_patched>>
    /\ GuiRest

\* the end of _process_certificates_thread (main.py, 374-380): completion is
\* reported if is_processing is still set, an exception always
ThreadExit ==
    /\ \E w \in Threads :
        /\ thread[w].pc \in {"returned", "raised"}
        /\ after_idle' =
               IF thread[w].pc = "raised" THEN Append(after_idle, "processing_failed")
               ELSE IF is_processing THEN Append(after_idle, "processing_completed")
               ELSE after_idle
        /\ thread' = [thread EXCEPT ![w].pc = "ended"]
    /\ UNCHANGED <<is_processing, process_btn, stop_btn, after_timers,
                   pdf_files, stats, proserv_dir, oman_dir, rmtree_patched>>
    /\ GuiRest

NextGui ==
    \/ start_processing
    \/ stop_processing
    \/ reset_ui_after_stop
    \/ processing_completed
    \/ processing_failed
    \/ ThreadEnter
    \/ ThreadLoopStop
    \/ ThreadLoopVisit
    \/ ThreadProserv
    \/ ThreadOman
    \/ ThreadFinish
    \/ ThreadExit

SpecGui == InitGui /\ [][NextGui]_vars

OmanProcessed == oman_pc \in {"processed", "done"}

\* no value span is the value of the labels of two different fields
NoValueTwice(chosen) ==
    \A i, j \in 1..Len(chosen) :
        chosen[i].label.normalized_key # chosen[j].label.normalized_key =>
            chosen[i].value # chosen[j].value

\* C2: in the label-value matching of one document no value span is
\* assigned to two different labels: a chosen span is consumed, and a second
\* label that would pick it gets the next-nearest other candidate, or "".
C2_ValueConsumed ==
    (OmanProcessed /\ ~parsed.raised) => NoValueTwice(parsed.chosen)

\* C3: when the matcher reports a missing field, the record written has
\* every field blank except Sl. No and Filename, which stay populated.
C3_BlankKeepsSlNoAndFilename ==
    (OmanProcessed /\ ~parsed.raised /\ parsed.missing_fields # <<>>) =>
        /\ Len(records) = 1
        /\ records[1].sl_no = SequenceNumber
        /\ records[1].values[FilenameId] = PdfName
        /\ \A f \in FieldIds \ {FilenameId} : records[1].values[f] = <<>>

InRun == run_pc \in {"loop", "proserv", "oman", "finish", "done", "stopped", "failed"}

\* the documents the loop of the current run has gone through
Visited == {pdf_files[k] : k \in 1..visited}

Unreadable(d) == DocStatus[d] # "ok"

\* C4: a PDF that cannot be opened (or has no page) is copied into neither
\* directory and is counted in errors, apart from a clean no-match, which
\* only increments unclassified.
C4_OpenFailureCountsAsError ==
    InRun =>
        /\ \A d \in Visited : Unreadable(d) => d \notin proserv_dir \cup oman_dir
        /\ stats["errors"] = Cardinality({d \in Visited : Unreadable(d) \/ d \in copy_failed})
        /\ stats["unclassified"] =
               Cardinality({d \in Visited : ~Unreadable(d) /\ DocClass[d] = None})

\* C5: once a progress callback of a run has returned False, whichever
\* call it was, the run classifies and copies no further document and no
\* extractor runs; what was copied and counted stays.
C5_StopCeasesProcessing ==
    [][(stop_requested /\ runs' = runs) =>
          UNCHANGED <<visited, stats, proserv_dir, oman_dir,
                      proserv_run, oman_run, proserv_read, oman_read>>]_vars

\* C6: when the extractor of one family fails in a run, the extractor of
\* the other family has still run in that run.
C6_OtherExtractorStillRuns ==
    /\ (run_pc = "failed" /\ proserv_run = "failed") => oman_run # "no"
    /\ (run_pc = "failed" /\ oman_run = "failed") => proserv_run # "no"

\* the PDFs the current run has classified into a family and copied
ClassifiedInto(family) ==
    {d \in Visited : DocClass[d] = family /\ d \notin copy_failed}

\* C8: when a family's extractor starts, the family's directory holds
\* exactly the PDFs the current run classified into that family.
C8_DirectoryHoldsThisRun ==
    /\ run_pc = "proserv" => proserv_dir = ClassifiedInto("proserv")
    /\ run_pc = "oman" => oman_dir = ClassifiedInto("oman")
    /\ proserv_run # "no" => proserv_read = ClassifiedInto("proserv")
    /\ oman_run # "no" => oman_read = ClassifiedInto("oman")

VisitedBy(w) == {pdf_files[k] : k \in 1..thread[w].visited}

\* the counter a document visited by worker w is counted in
Outcome(w, d) ==
    IF d \in thread[w].copy_failed THEN "errors"
    ELSE IF DocClass[d] = None THEN "unclassified"
    ELSE DocClass[d]

\* C10: in a run the counters start at zero and each visited document
\* increments exactly one of them, so that at every point of a run each
\* counter is the number of the run's visited documents with that outcome,
\* and a folder of one Proserv, one Oman and one unmatched PDF ends with
\* 1, 1, 1, 0.
C10_StatsCountVisited ==
    \A w \in DOMAIN thread : thread[w].pc \in InsideRun =>
        /\ \A k \in StatKeys :
              stats[k] = Cardinality({d \in VisitedBy(w) : Outcome(w, d) = k})
        /\ stats["proserv"] + stats["oman"] + stats["unclassified"] + stats["errors"]
              = thread[w].visited
        /\ (thread[w].pc = "finish" /\ thread[w].copy_failed = {}
                /\ pdf_files = <<1, 2, 3>>) =>
              stats = [proserv |-> 1, oman |-> 1, unclassified |-> 1, errors |-> 0]

\* C7: at most one worker is inside process_certificates at any time
C7_OneWorkerAtATime ==
    Cardinality({w \in DOMAIN thread : thread[w].pc \in InsideRun}) <= 1

\* the label spans and the value spans the matcher works on
KeySpans(raw) == SelectSeq(_extend_spans_with_merged(_extract_spans(raw)), IsKey)
ValueSpans(raw) == SelectSeq(_extend_spans_with_merged(_extract_spans(raw)), IsValue)

\* the value spans on the row of label k and to the right of it
Candidates(k, values) ==
    {values[n] : n \in {m \in 1..Len(values) : IsCandidate(k, values[m])}}

\* every label span has got a qualifying value span of smallest gap, or ""
\* when none qualifies
NearestSelected(p, keys, values) ==
    \A i \in 1..Len(keys) :
        LET k == keys[i]
            cands == Candidates(k, values)
            field == FieldOfKey(k.normalized_key)
            last == \A j \in (i + 1)..Len(keys) :
                        keys[j].normalized_key # k.normalized_key
        IN  IF cands = {}
            THEN /\ \A n \in 1..Len(p.chosen) : p.chosen[n].label # k
                 /\ last => p.metadata[field] = <<>>
            ELSE \E n \in 1..Len(p.chosen) :
                    /\ p.chosen[n].label = k
                    /\ p.chosen[n].value \in cands
                    /\ \A c \in cands :
                          Distance(k, p.chosen[n].value) <= Distance(k, c)
                    /\ last => p.metadata[field] = Strip(p.chosen[n].value.text)

\* C11: for each label span the matcher selects, among the value spans
\* within Y_TOLERANCE of the label's vertical centre and with x0 beyond the
\* label's right edge, one with the smallest gap, and "" when there is none.
C11_NearestValueSelected ==
    OmanProcessed =>
        /\ ~parsed.raised
        /\ NearestSelected(parsed, KeySpans(raw_spans), ValueSpans(raw_spans))

\* the spans of the row bucket r, left to right
SortedRow(spans, r) == SortByX0(RowOf(spans, r))

RowKeySet(spans) == {RowKey(spans[n]) : n \in 1..Len(spans)}

\* fragments i..j of a row read together as a field label
RunIsLabel(row, i, j) == InNormalizedMap(_normalize_key(CombinedText(row, i, j)))

\* among the synthetic spans there is one with the key of fragments i..j of
\* the row, from the left edge of fragment i to the right edge of fragment j
HasMerged(ext, originals, row, i, j) ==
    \E m \in (originals + 1)..Len(ext) :
        /\ ext[m].normalized_key = _normalize_key(CombinedText(row, i, j))
        /\ ext[m].bbox[1] = row[i].bbox[1]
        /\ ext[m].bbox[3] = row[j].bbox[3]

\* the same, the merged span ending with fragment j or with an earlier
\* fragment of the run
HasMergedWithin(ext, originals, row, i, j) ==
    \E m \in (originals + 1)..Len(ext), e \in (i + 1)..j :
        /\ ext[m].normalized_key = _normalize_key(CombinedText(row, i, j))
        /\ ext[m].bbox[1] = row[i].bbox[1]
        /\ ext[m].bbox[3] = row[e].bbox[3]

\* C12 as stated: fragments of one row with increasing x0 whose
\* concatenation normalizes to a field label give a merged span with that
\* label's key, from the first fragment's left edge to the right edge of
\* the last fragment the merge consumed.
C12_EveryLabelRunMerged ==
    oman_pc = "extended" =>
        LET spans == _extract_spans(raw_spans)
        IN  \A r \in RowKeySet(spans) :
                LET row == SortedRow(spans, r)
                IN  \A i \in 1..Len(row), j \in 1..Len(row) :
                        (i < j /\ RunIsLabel(row, i, j)) =>
                            HasMergedWithin(extended, Len(spans), row, i, j)

\* C12 amended: the same for fragments that are consecutive in their row
\* bucket floor(y centre / Y_TOLERANCE), at most five of them, with no
\* shorter run of two or more from the same first fragment being a label.
C12_FirstLabelRunMerged ==
    oman_pc = "extended" =>
        LET spans == _extract_spans(raw_spans)
        IN  \A r \in RowKeySet(spans) :
                LET row == SortedRow(spans, r)
                IN  \A i \in 1..Len(row), j \in 1..Len(row) :
                        ( /\ i < j
                          /\ j - i <= 4
                          /\ RunIsLabel(row, i, j)
                          /\ \A m \in (i + 1)..(j - 1) : ~RunIsLabel(row, i, m) ) =>
                            HasMerged(extended, Len(spans), row, i, j)

\* C12 witness: PROJECT, DESC, RIPTION on one row have given a merged span
\* PROJECTDESCRIPTION from x 0 to x 55.
C12_Witness ==
    /\ oman_pc = "extended"
    /\ Len(raw_spans) = 3
    /\ \A n \in 1..3 : raw_spans[n].bbox[2] = 0
    /\ \E m \in 4..Len(extended) :
          /\ extended[m].normalized_key =
               <<"P","R","O","J","E","C","T","D","E","S","C","R","I","P","T","I","O","N">>
          /\ extended[m].bbox = <<0, 0, 55, 8>>


ProservProcessed == proserv_pc = "processed"

OnlyDigits(cell) == cell # <<>> /\ \A i \in 1..Len(cell) : cell[i] \in Digits

FirstColumn(rows) == [i \in 1..Len(rows) |-> rows[i][1]]

\* C13: the rows a Proserv table extraction returns are exactly the rows of
\* the header-stripped table whose first cell (S-No.) consists only of
\* digits, cut to the 18 columns, in their original order; every other row
\* is dropped.
C13_DigitRowsKept ==
    ProservProcessed /\ ~dataframe.none =>
        LET kept == SelectSeq(dataframe.headerless, LAMBDA r : OnlyDigits(r[1]))
        IN  dataframe.rows = [i \in 1..Len(kept) |-> SubSeq(kept[i], 1, 18)]

\* the table with header and S-No. values 1, 2, Total, 3 gives rows 1, 2, 3
C13_Witness ==
    /\ ProservProcessed
    /\ ~dataframe.none
    /\ Len(pdf_doc.lattice.tables) = 1
    /\ Len(pdf_doc.lattice.tables[1].rows) = 5
    /\ FirstColumn(dataframe.headerless) = << <<"1">>, <<"2">>, <<"T","o","t","a","l">>, <<"3">> >>
    /\ FirstColumn(dataframe.rows) = << <<"1">>, <<"2">>, <<"3">> >>


\* the table _extract_table_data works on when lattice finds one
LatticeFound ==
    /\ pdf_doc.readable
    /\ pdf_doc.page_count > 0
    /\ ~read_pdf(pdf_doc, pdf_doc.page_count, "lattice").raised
    /\ Len(read_pdf(pdf_doc, pdf_doc.page_count, "lattice").tables) > 0

FirstLatticeTable == read_pdf(pdf_doc, pdf_doc.page_count, "lattice").tables[1]

HeaderTokensUpper ==
    { <<"S","-","N","O">>,
      <<"E","Q","U","I","P","M","E","N","T"," ","T","A","G">>,
      <<"P","A","S","S","/","F","A","I","L">> }

RowHasTokens(row) ==
    \A t \in HeaderTokensUpper : \E c \in 1..Len(row) : Contains(Upper(row[c]), t)

TokenRows(rows) == {i \in 1..Len(rows) : RowHasTokens(rows[i])}

SpaceJoined(rows) == [c \in 1..Len(rows[1]) |-> rows[1][c] \o <<" ">> \o rows[2][c]]

\* C14: when no row of the first candidate table holds the three header
\* tokens and the merge of rows 0 and 1 does not either, the document
\* contributes no rows and an error is recorded for it.
C14_NoHeaderSkipped ==
    /\ ProservProcessed
    /\ LatticeFound
    /\ TokenRows(FirstLatticeTable.rows) = {}
    /\ ~(Len(FirstLatticeTable.rows) >= 2 /\ RowHasTokens(SpaceJoined(FirstLatticeTable.rows)))
    => /\ \A k \in 1..Len(dataframes) : dataframes[k] = <<>>
       /\ errors = <<ProservName>>


\* C15: on the first candidate table, the first row holding the three
\* tokens (case-insensitively, each in some cell) is the header and the data
\* is the rows after it; only when no single row does and the table has two
\* rows or more is the space-joined merge of rows 0 and 1 tested, and if it
\* holds the tokens the data is the rows from index 2 on.
C15_HeaderDetection ==
    ProservProcessed /\ LatticeFound =>
        LET rows == FirstLatticeTable.rows
            hs == TokenRows(rows)
        IN  /\ hs # {} =>
                 \E h \in hs :
                    /\ \A k \in hs : h <= k
                    /\ dataframe.headerless = SubSeq(rows, h + 1, Len(rows))
            /\ hs = {} /\ Len(rows) >= 2 /\ RowHasTokens(SpaceJoined(rows)) =>
                 dataframe.headerless = SubSeq(rows, 3, Len(rows))

\* rows 0 and 1 merged hold the tokens, and so does row 2 alone: row 2 is
\* the header
C15_Witness ==
    /\ ProservProcessed
    /\ LatticeFound
    /\ Len(FirstLatticeTable.rows) = 4
    /\ TokenRows(FirstLatticeTable.rows) = {3}
    /\ RowHasTokens(SpaceJoined(FirstLatticeTable.rows))
    /\ dataframe.headerless = <<FirstLatticeTable.rows[4]>>

CallsOf(flavor) == {i \in 1..Len(dataframe.calls) : dataframe.calls[i].flavor = flavor}

\* what a strategy finds on the last page
OnLastPage(flavor) == read_pdf(pdf_doc, pdf_doc.page_count, flavor)

FindsNone(outcome) == outcome.raised \/ Len(outcome.tables) = 0

\* C16: table detection runs on the last page, lattice first; stream runs
\* only if lattice returned no table or raised.  When lattice returns a
\* table, stream is never run and the table used is lattice's first; when
\* neither returns a table the document yields no rows.
C16_LatticeThenStream ==
    ProservProcessed /\ pdf_doc.readable /\ pdf_doc.page_count > 0 =>
        /\ \A i \in 1..Len(dataframe.calls) : dataframe.calls[i].pages = pdf_doc.page_count
        /\ Len(dataframe.calls) >= 1 /\ dataframe.calls[1].flavor = "lattice"
        /\ CallsOf("stream") # {} <=> FindsNone(OnLastPage("lattice"))
        /\ \A i \in CallsOf("stream") : i = 2
        /\ ~FindsNone(OnLastPage("lattice")) =>
              dataframe.headerless = _process_headers(OnLastPage("lattice").tables[1].rows).rows
        /\ FindsNone(OnLastPage("lattice")) /\ FindsNone(OnLastPage("stream")) =>
              /\ dataframe.none
              /\ dataframes = <<>>

\* lattice returns two tables and stream would return another one: only
\* lattice ran and its first table gave the rows
C16_Witness ==
    /\ ProservProcessed
    /\ pdf_doc.page_count = 2
    /\ pdf_doc.lattice = Found(<<StandardTable, OtherTable>>)
    /\ pdf_doc.stream = Found(<<OtherTable>>)
    /\ dataframe.calls = <<[flavor |-> "lattice", pages |-> 2]>>
    /\ FirstColumn(dataframe.rows) = << <<"1">>, <<"2">>, <<"3">> >>


Page1Lines == SplitLines(pdf_doc.page1)

MarkerLines == {i \in 1..Len(Page1Lines) : Contains(Page1Lines[i], EQUIPMENT_ID)}

FirstMarkerLine == CHOOSE i \in MarkerLines : \A k \in MarkerLines : i <= k

PageReadable == pdf_doc.readable /\ pdf_doc.page_count > 0

\* C18: _extract_equipment_id returns the stripped line 5 lines below the
\* first line of page 1 that contains 'Equipment ID', and the empty string
\* when no line contains it, when there is no line 5 below it or when the
\* PDF cannot be read; a later marker line never supplies the value.
C18_FifthLineBelowFirstMarker ==
    ProservProcessed =>
        equipment_id =
            IF PageReadable /\ MarkerLines # {} /\ FirstMarkerLine + 5 <= Len(Page1Lines)
            THEN Strip(Page1Lines[FirstMarkerLine + 5])
            ELSE <<>>

\* marker lines 1 and 2, the second five lines above the last line: the
\* line 5 below the first one is returned, stripped
C18_Witness ==
    /\ ProservProcessed
    /\ PageReadable
    /\ MarkerLines = {1, 2, 7}
    /\ Len(Page1Lines) = 7
    /\ Page1Lines[6] = <<" ","E","Q","-","7"," ">>
    /\ equipment_id = <<"E","Q","-","7">>


\* C19: a document whose Equipment ID is not found is neither skipped nor
\* recorded as an error: the rows of its table are emitted, each with the
\* empty string as Equipment ID.
C19_MissingIdStillEmitted ==
    /\ ProservProcessed
    /\ PageReadable
    /\ ~(MarkerLines # {} /\ FirstMarkerLine + 5 <= Len(Page1Lines))
    /\ ~dataframe.none
    => /\ errors = <<>>
       /\ Len(dataframes) = 1
       /\ Len(dataframes[1]) = Len(dataframe.rows)
       /\ \A i \in 1..Len(dataframes[1]) :
             /\ dataframes[1][i].cells = dataframe.rows[i]
             /\ dataframes[1][i].EquipmentID = <<>>
             /\ dataframes[1][i].Filename = ProservName

\* page 1 without the marker, a table with rows 1, 2, 3: three rows, no
\* error
C19_Witness ==
    /\ ProservProcessed
    /\ PageReadable
    /\ MarkerLines = {}
    /\ Page1Lines # <<>>
    /\ errors = <<>>
    /\ Len(dataframes) = 1
    /\ Len(dataframes[1]) = 3
    /\ \A i \in 1..3 : dataframes[1][i].EquipmentID = <<>>


\* pd.concat(self.dataframes): the rows of the Proserv spreadsheet
FinalRows == Concat(dataframes)

RowsOf(d) == {i \in 1..Len(FinalRows) : FinalRows[i].Filename = DocFilename[d]}

HasErrorEntry(d) == \E i \in 1..Len(errors) : errors[i] = DocFilename[d]

\* no table by either strategy, or a first table of fewer than 18 columns
TableFails(d) ==
    LET lattice == DocTables[d].lattice
        stream == DocTables[d].stream
    IN  IF ~FindsNone(lattice) THEN lattice.tables[1].ncols < 18
        ELSE IF ~FindsNone(stream) THEN stream.tables[1].ncols < 18
        ELSE TRUE

ProservRan == proserv_run # "no"

\* C17: a document that fails never stops the run.  In the classification
\* loop a failing copy is counted as an error and the loop goes on to the
\* extractors; in ProservProcessor a document without a table, or with a
\* table of fewer than 18 columns, gets an error entry and every document
\* of the directory is gone through; a failed document contributes no rows.
C17_FailureDoesNotStopRun ==
    /\ stats # <<>> => stats["errors"] = Cardinality(copy_failed)
    /\ run_pc = "failed" /\ copy_failed # {} =>
          visited = Len(pdf_files) /\ ProservRan
    /\ ProservRan =>
          /\ visited = Len(pdf_files)
          /\ Len(dataframes) + Len(errors) = Cardinality(proserv_read)
          /\ \A d \in proserv_read :
                IF TableFails(d) THEN HasErrorEntry(d) /\ RowsOf(d) = {}
                ELSE ~HasErrorEntry(d)
          /\ \A d \in copy_failed : RowsOf(d) = {}


OmanRan == oman_run # "no"

\* the record OmanProcessor makes of document d as the k-th file
RecordOf(d, k) ==
    _process_single_pdf(_parse_certificate(DocSpans[d], k, DocFilename[d]),
                        k, DocFilename[d])

\* the documents of the rows of the Proserv spreadsheet, in row order
RowDocs ==
    [i \in 1..Len(FinalRows) |->
        CHOOSE d \in Docs : DocFilename[d] = FinalRows[i].Filename]

\* C20: output order is sorted filename order.  After OmanProcessor.process
\* over the n PDFs of the Oman directory there are n records, the k-th made
\* from the k-th file in sorted order with Sl. No k, whether the document
\* parsed cleanly, had missing fields or raised; the Proserv rows are
\* grouped by document in sorted order, in table order within a document.
C20_SortedFilenameOrder ==
    /\ OmanRan =>
          LET files == SortedFiles(oman_read)
          IN  /\ Len(records) = Len(files)
              /\ \A k \in 1..Len(files) :
                    /\ records[k].sl_no = k
                    /\ records[k] = RecordOf(files[k], k)
    /\ ProservRan =>
          /\ \A i, j \in 1..Len(FinalRows) : i < j => RowDocs[i] <= RowDocs[j]
          /\ \A d \in proserv_read :
                [i \in 1..Cardinality(RowsOf(d)) |->
                    FinalRows[(CHOOSE m \in RowsOf(d) : \A n \in RowsOf(d) : m <= n) + i - 1].cells]
                = (IF DocHasTable[d] THEN _extract_table_data(DocPdf[d]).rows ELSE <<>>)

\* the folder of all certificates: three Oman records, the first from a
\* document that raised, the second from one with missing fields, the third
\* complete; Proserv rows 1, 2, 3 of d1.pdf, then row 2 of d7.pdf
C20_Witness ==
    /\ OmanRan
    /\ oman_read = {2, 8, 9}
    /\ Len(records) = 3
    /\ _parse_certificate(DocSpans[2], 1, DocFilename[2]).raised
    /\ _parse_certificate(DocSpans[8], 2, DocFilename[8]).missing_fields # <<>>
    /\ records[3].sl_no = 3
    /\ records[3].values[FilenameId] = DocFilename[9]
    /\ proserv_read = {1, 6, 7}
    /\ RowDocs = <<1, 1, 1, 7>>
    /\ FirstColumn([i \in 1..4 |-> FinalRows[i].cells]) = << <<"1">>, <<"2">>, <<"3">>, <<"2">> >>


\* documents that came out of an extractor: the dataframes of
\* ProservProcessor and the records of OmanProcessor, blank ones included
ProcessedDocuments == Len(dataframes) + Len(records)

\* process_certificates raised before the loop (no PDF, or _setup_directories)
FailedBeforeLoop == run_pc = "failed" /\ visited = 0 /\ ~ProservRan

\* C21: a run is reported as failed (process_certificates raises) only when
\* the directory setup fails, a spreadsheet cannot be written or no document
\* was successfully processed, and a run in which no document was
\* successfully processed is reported as failed, never as completed.
C21_NoSuccessMeansFailed ==
    /\ run_pc = "failed" =>
          \/ FailedBeforeLoop
          \/ proserv_run = "failed"
          \/ oman_run = "failed"
          \/ ProcessedDocuments = 0
    /\ run_pc = "done" => ProcessedDocuments > 0


\* the calls of stats_callback made after a document of the loop
DocumentCalls == SelectSeq(stats_calls, LAMBDA c : c.after = "document")

Total(counters) ==
    counters["proserv"] + counters["oman"] + counters["unclassified"] + counters["errors"]

CalledAfter(milestone) == \E i \in 1..Len(stats_calls) : stats_calls[i].after = milestone

\* C22: the stats callback is called once after every visited document,
\* also one whose copy raised, with the counters as they are then (the k-th
\* call has counted k documents, the last call shows the present counters),
\* and it is called again at the extraction milestones, around the run of
\* the Proserv extractor and around the run of the Oman extractor.
C22_StatsCallbackCalls ==
    /\ InRun =>
          /\ Len(DocumentCalls) = visited
          /\ \A k \in 1..visited : Total(DocumentCalls[k].stats) = k
          /\ stats_calls # <<>> => stats_calls[Len(stats_calls)].stats = stats
    /\ ProservRan => CalledAfter("proserv")
    /\ OmanRan => CalledAfter("oman")


\* the second of two runs on the same folder has completed, every copy made
RerunCompleted == previous # <<>> /\ run_pc = "done" /\ copy_failed = {}

\* C23: running the pipeline twice on an unchanged folder gives the same
\* datasets both times.  When a run on the folder of the completed run
\* before it completes too, with every copy made in both, it has read the
\* same PDFs, and the Proserv rows and the Oman records are those of the
\* first run, in the same order, and the same spreadsheets were written.
C23_SameOutputTwice ==
    RerunCompleted =>
        /\ pdf_files = previous.pdf_files
        /\ dataframes = previous.dataframes
        /\ records = previous.records
        /\ <<proserv_run, oman_run>> = previous.written

\* the two runs are the first two of the process: shutil.rmtree is not yet
\* replaced when the first of them clears the directories
FirstTwoRuns == RerunCompleted /\ runs = 2


\* the value spans that qualify for label k, in candidate order
CandidateSeq(k, values) == SelectSeq(values, LAMBDA v : IsCandidate(k, v))

\* the places in candidate order of the candidates with the smallest gap
Nearest(k, cands) ==
    {n \in 1..Len(cands) :
        \A m \in 1..Len(cands) : Distance(k, cands[n]) <= Distance(k, cands[m])}

\* C24: when two or more qualifying candidates of a label have the same
\* smallest horizontal gap, the matcher selects the first of them in
\* candidate order and the field receives its text; the tie gives neither
\* an error nor a blank record.
C24_TieTakesFirst ==
    OmanProcessed =>
        \A i \in 1..Len(KeySpans(raw_spans)) :
            LET k == KeySpans(raw_spans)[i]
                cands == CandidateSeq(k, ValueSpans(raw_spans))
                near == Nearest(k, cands)
                first == cands[CHOOSE n \in near : \A m \in near : n <= m]
            IN  Cardinality(near) >= 2 =>
                    /\ ~parsed.raised
                    /\ \E n \in 1..Len(parsed.chosen) :
                          /\ parsed.chosen[n].label = k
                          /\ parsed.chosen[n].value = first
                    /\ parsed.missing_fields = <<>> =>
                          records[1].values[FieldOfKey(k.normalized_key)] # <<>>


\* the synthetic spans: what _extend_spans_with_merged put after the spans
Synthetic == SubSeq(extended, Len(_extract_spans(raw_spans)) + 1, Len(extended))

\* span m is the merge of fragments i..j of the row, fragment i its left
\* edge and fragment j its right edge
MergeOf(m, row, i, j) ==
    /\ m.text = CombinedText(row, i, j)
    /\ m.bbox[1] = row[i].bbox[1]
    /\ m.bbox[3] = row[j].bbox[3]

\* C25: every synthetic span is the merge of a run of consecutive fragments
\* of one row bucket, the start fragment and at most four after it, whose
\* text normalizes to a field label while no shorter run from the same start
\* does; its key is in the field dictionary; and no two synthetic spans have
\* the same start fragment.
C25_ShortestRunPerStart ==
    oman_pc = "extended" =>
        LET spans == _extract_spans(raw_spans)
        IN  /\ \A m \in 1..Len(Synthetic) :
                  /\ InNormalizedMap(Synthetic[m].normalized_key)
                  /\ \E r \in RowKeySet(spans) :
                        LET row == SortedRow(spans, r)
                        IN  \E i, j \in 1..Len(row) :
                                /\ i < j
                                /\ j - i <= 4
                                /\ MergeOf(Synthetic[m], row, i, j)
                                /\ RunIsLabel(row, i, j)
                                /\ \A e \in (i + 1)..(j - 1) : ~RunIsLabel(row, i, e)
            /\ \A m, n \in 1..Len(Synthetic) :
                  m # n => Synthetic[m].bbox[1] # Synthetic[n].bbox[1]

\* AR, EA, CLASS on one row: AREA is merged from the first fragment and
\* nothing else, although AR, EA, CLASS together read AREA CLASS
C25_Witness ==
    /\ oman_pc = "extended"
    /\ [n \in 1..Len(raw_spans) |-> raw_spans[n].text] =
           << <<"A","R">>, <<"E","A">>, <<"C","L","A","S","S">> >>
    /\ \A n \in 1..3 : raw_spans[n].bbox[2] = 0
    /\ Len(Synthetic) = 1
    /\ Synthetic[1].normalized_key = <<"A","R","E","A">>
    /\ Synthetic[1].bbox = <<0, 0, 35, 8>>


Min2(a, b) == IF a <= b THEN a ELSE b
Max2(a, b) == IF a >= b THEN a ELSE b

\* the smallest box that contains both boxes
BoxUnion(a, b) ==
    <<Min2(a[1], b[1]), Min2(a[2], b[2]), Max2(a[3], b[3]), Max2(a[4], b[4])>>

\* C26: the bbox of every synthetic merged span is the union of the boxes
\* of its start fragment and its end fragment: x0 and y0 are the smaller,
\* x1 and y1 the larger of the two fragments' coordinates.
C26_BboxIsUnion ==
    oman_pc = "extended" =>
        LET spans == _extract_spans(raw_spans)
        IN  \A m \in 1..Len(Synthetic), r \in RowKeySet(spans) :
                LET row == SortedRow(spans, r)
                IN  \A i, j \in 1..Len(row) :
                        (i < j /\ MergeOf(Synthetic[m], row, i, j)) =>
                            Synthetic[m].bbox = BoxUnion(row[i].bbox, row[j].bbox)


\* the vertical centres of two spans differ by less than Y_TOLERANCE
\* (y_position is kept in quarter points)
JitterOnly(a, b) == Abs(a.y_position - b.y_position) < 4 * Y_TOLERANCE

\* C27: two fragments whose vertical centres differ by less than
\* Y_TOLERANCE (5 points) are put into the same row bucket, and so two
\* such fragments that read as a label from left to right are merged.
C27_JitterSameBucket ==
    oman_pc = "extended" =>
        LET spans == _extract_spans(raw_spans)
        IN  \A a, b \in 1..Len(spans) :
                JitterOnly(spans[a], spans[b]) =>
                    /\ RowKey(spans[a]) = RowKey(spans[b])
                    /\ ( /\ Len(spans) = 2
                         /\ spans[a].bbox[1] < spans[b].bbox[1]
                         /\ InNormalizedMap(_normalize_key(spans[a].text \o spans[b].text)) )
                       => Len(Synthetic) = 1


\* the documents of the Proserv directory that gave a dataframe, in sorted
\* filename order
Extracted == SelectSeq(SortedFiles(proserv_read), LAMBDA d : DocHasTable[d])

\* the rows ProservProcessor keeps of document d, with its metadata
KeptRows(d) ==
    WithMetadata(_extract_table_data(DocPdf[d]).rows, DocFilename[d],
                 _extract_equipment_id(DocPdf[d]))

\* C28: the final Proserv dataset is the concatenation, in sorted filename
\* order, of the rows of every document that gave a table; no row of it has
\* an S-No. that is not digits only; it is what concatenating the
\* documents' unfiltered rows and filtering the whole afterwards gives; and
\* rows that repeat are all kept.
C28_FilterThenConcat ==
    ProservRan =>
        /\ FinalRows = Concat([k \in 1..Len(Extracted) |-> KeptRows(Extracted[k])])
        /\ \A i \in 1..Len(FinalRows) : OnlyDigits(FinalRows[i].cells[1])
        /\ FinalRows = MergeAndFilterOld([k \in 1..Len(Extracted) |-> CollectedOld(Extracted[k])])

\* d1.pdf (rows 1, 2, Total, 3 under a header), d6.pdf (17 columns) and
\* d7.pdf (row 2): rows 1, 2, 3 of d1.pdf, then row 2 of d7.pdf, whose 18
\* cells repeat those of the second row
C28_Witness ==
    /\ ProservRan
    /\ proserv_read = {1, 6, 7}
    /\ Extracted = <<1, 7>>
    /\ Len(CollectedOld(1)) = 4
    /\ Len(FinalRows) = 4
    /\ FinalRows[2].cells = FinalRows[4].cells
    /\ FinalRows[2].Filename # FinalRows[4].Filename


\* the end of the merge that starts at fragment i of the row, 0 if none
MergeEnd(row, i) ==
    LET last == IF i + 4 < Len(row) THEN i + 4 ELSE Len(row)
        js == {j \in (i + 1)..last : RunIsLabel(row, i, j)}
    IN  IF js = {} THEN 0 ELSE CHOOSE j \in js : \A n \in js : j <= n

\* the fragments that went into a synthetic merged span
Consumed(spans) ==
    UNION { LET row == SortedRow(spans, r)
            IN  UNION { IF MergeEnd(row, i) = 0 THEN {}
                        ELSE {row[e] : e \in i..MergeEnd(row, i)} : i \in 1..Len(row) }
            : r \in RowKeySet(spans) }

OmanParsed == OmanProcessed /\ ~parsed.raised

\* C29 as stated: no fragment that was consumed into a synthetic merged
\* label span is selected as the value of a field, and no label span is.
C29_ConsumedNeverValue ==
    OmanParsed =>
        \A n \in 1..Len(parsed.chosen) :
            /\ ~InNormalizedMap(parsed.chosen[n].value.normalized_key)
            /\ parsed.chosen[n].value \notin Consumed(_extract_spans(raw_spans))

\* What _parse_certificate does guarantee: the text of a field comes from
\* a span of the page whose normalized key is not a field label, so never
\* from a label span and never from a synthetic merged span.
ValueIsNeverLabel ==
    OmanParsed =>
        LET spans == _extract_spans(raw_spans)
        IN  /\ \A n \in 1..Len(parsed.chosen) :
                  /\ ~InNormalizedMap(parsed.chosen[n].value.normalized_key)
                  /\ \E k \in 1..Len(spans) : spans[k] = parsed.chosen[n].value
            /\ \A f \in FieldIds \ {FilenameId} :
                  parsed.metadata[f] # <<>> =>
                      \E n \in 1..Len(parsed.chosen) :
                          /\ FieldOfKey(parsed.chosen[n].label.normalized_key) = f
                          /\ parsed.metadata[f] = Strip(parsed.chosen[n].value.text)

\* Area and Class on one row: AREA CLASS is merged from both, and the
\* label AREA takes the fragment Class as its value
ConsumedFragmentChosen ==
    /\ OmanParsed
    /\ \E n \in 1..Len(parsed.chosen) :
          /\ parsed.chosen[n].value \in Consumed(_extract_spans(raw_spans))
          /\ parsed.chosen[n].value.text = <<"C","l","a","s","s">>
          /\ parsed.chosen[n].label.normalized_key = <<"A","R","E","A">>
    /\ \E n \in 1..Len(parsed.chosen) :
          parsed.chosen[n].label.normalized_key = <<"A","R","E","A","C","L","A","S","S">>


\* C30: for every sequence of page-1 spans, OmanProcessor._parse_certificate
\* followed by _process_single_pdf appends the same record (Sl. No, Filename
\* and every field) as parse_certificate followed by the record-building
\* step of main in oman.py.
C30_SameRecord ==
    oman_pc = "done" => records[1] = records_old[1]

=============================================================================
